---------------------------- MODULE Spec2Model ----------------------------
(***************************************************************************)
(* Quotes Direct client: TCP packet framing (quotesdirectlib::packets),    *)
(* the session connection (examples::client::connection::SDSConnection)    *)
(* and the subscription catalog (examples::client::SDSClient).             *)
(*                                                                         *)
(* Number representations.  TLC integers are 32-bit signed, so the u32     *)
(* sequence counters are kept as two 16-bit limbs [hi, lo] and the u64     *)
(* frame length as ten base-128 digits (most significant first, the first  *)
(* digit holding bit 63 only).  Bytes are naturals 0..255.                 *)
(***************************************************************************)
EXTENDS Integers, Sequences, FiniteSets, TLC

(***************************************************************************)
(* Bounds of the model.                                                    *)
(***************************************************************************)
MaxPayload == 2     \* payload bytes of a frame the peer sends
MaxWire == 8        \* unread bytes the transport holds
MaxSent == 3        \* control messages sent over the session
MaxConnects == 1    \* connect / read_file calls on one SDSConnection
MaxStream == 6      \* bytes of a stream handed to TCPPacket::read alone
MaxArrived == 7     \* unread bytes of a transport that delivers byte by byte
MaxTail == 1        \* bytes that follow a VarUint written to a stream
MaxDatagram == 6    \* bytes of a datagram handed to UDPPacket::read
MaxTokens == 3      \* tokens of a feed list handed to Feeds::from_strs
MaxQueued == 2      \* datagrams waiting in the socket of ffs-client

(***************************************************************************)
(* u32                                                                     *)
(***************************************************************************)
U32Of(n) == [hi |-> n \div 65536, lo |-> n % 65536]

U32_MAX == [hi |-> 65535, lo |-> 65535]

\* x + 1 modulo 2^32
WrappingAdd1(x) ==
    IF x.lo < 65535 THEN [hi |-> x.hi, lo |-> x.lo + 1]
    ELSE [hi |-> (x.hi + 1) % 65536, lo |-> 0]

\* x - 1 modulo 2^32 (used only to name input values next to U32_MAX)
WrappingSub1(x) ==
    IF x.lo > 0 THEN [hi |-> x.hi, lo |-> x.lo - 1]
    ELSE [hi |-> (x.hi + 65535) % 65536, lo |-> 65535]

\* `x + 1` on u32: with overflow checks (debug profile) the addition panics
\* on u32::MAX, without them (release profile) it wraps.
CheckedAdd1(x, checks) ==
    [panic |-> checks /\ x = U32_MAX, value |-> WrappingAdd1(x)]

(***************************************************************************)
(* u64 as base-128 digits                                                  *)
(***************************************************************************)
U64Digits == 10

U64Of(n) == [i \in 1..U64Digits |->
               IF i = U64Digits THEN n % 128
               ELSE IF i = U64Digits - 1 THEN (n \div 128) % 128
               ELSE IF i = U64Digits - 2 THEN (n \div 16384) % 128
               ELSE 0]

\* Shl7Or on 63 bits
Shl7Or_DropsTopBit(value, group) ==
    [i \in 1..U64Digits |->
        IF i = U64Digits THEN group
        ELSE IF i = 1 THEN 0
        ELSE value[i + 1]]

\* (value << 7) | group, on 64 bits: the bits shifted past bit 63 are lost
Shl7Or(value, group) ==
    [i \in 1..U64Digits |->
        IF i = U64Digits THEN group
        ELSE IF i = 1 THEN value[2] % 2
        ELSE value[i + 1]]

\* value >> 7
Shr7(value) == [i \in 1..U64Digits |-> IF i = 1 THEN 0 ELSE value[i - 1]]

U64IsZero(value) == \A i \in 1..U64Digits : value[i] = 0

\* the value fits the three low digits (value < 2^21)
U64Small(value) == \A i \in 1..(U64Digits - 3) : value[i] = 0

\* the value as a natural when it is small, else 2^21: a length no stream
\* of the model can supply
U64ToNat(value) ==
    IF U64Small(value)
    THEN value[U64Digits - 2] * 16384 + value[U64Digits - 1] * 128 + value[U64Digits]
    ELSE 2097152

(***************************************************************************)
(* Byte streams.  A stream is the bytes not yet read and how it ends:      *)
(* "open" (more bytes may arrive; a read waits), "eof" (exhausted after    *)
(* these bytes) or "err" (the transport fails after these bytes).          *)
(***************************************************************************)
StreamEnds == {"open", "eof", "err"}

\* AsyncReadExt::read_exact / Read::read_exact of n bytes
ReadExact(s, end, n) ==
    IF Len(s) >= n
    THEN [st |-> "Ok", bytes |-> SubSeq(s, 1, n), rest |-> SubSeq(s, n + 1, Len(s))]
    ELSE IF end = "open"
    THEN [st |-> "Pending", bytes |-> <<>>, rest |-> s]
    ELSE [st |-> "Err", bytes |-> <<>>, rest |-> <<>>]


(***************************************************************************)
(* VarUint codec (packets.rs; sync/packets.rs holds the same code over     *)
(* std::io).                                                               *)
(***************************************************************************)
RECURSIVE read_var_uint_loop(_, _, _, _)
\* the `loop` of read_var_uint: `byte` is the byte just read
read_var_uint_loop(value, byte, rest, end) ==
    LET v == Shl7Or(value, byte % 128) IN
    IF byte >= 128
    THEN [st |-> "Some", value |-> v, rest |-> rest]
    ELSE LET r == ReadExact(rest, end, 1) IN
         IF r.st = "Ok"
         THEN read_var_uint_loop(v, r.bytes[1], r.rest, end)
         ELSE [st |-> r.st, value |-> v, rest |-> r.rest]

\* a failed first read of any kind is taken for the end of the file
read_var_uint_first_err(r) == [st |-> "None", value |-> U64Of(0), rest |-> r.rest]

read_var_uint(s, end) ==
    LET r == ReadExact(s, end, 1) IN
    IF r.st = "Pending" THEN [st |-> "Pending", value |-> U64Of(0), rest |-> s]
    ELSE IF r.st = "Err" THEN read_var_uint_first_err(r)
    ELSE read_var_uint_loop(U64Of(0), r.bytes[1], r.rest, end)

RECURSIVE write_var_uint_loop(_, _)
\* the `loop` of write_var_uint: buf holds the groups pushed so far
write_var_uint_loop(buf, value) ==
    LET v == Shr7(value) IN
    IF U64IsZero(v) THEN buf
    ELSE write_var_uint_loop(Append(buf, v[U64Digits]), v)

Reverse(s) == [i \in 1..Len(s) |-> s[Len(s) + 1 - i]]

\* write_var_uint without buf.reverse()
write_var_uint_NotReversed(value) ==
    write_var_uint_loop(<<value[U64Digits] + 128>>, value)

write_var_uint(value) ==
    Reverse(write_var_uint_loop(<<value[U64Digits] + 128>>, value))

(***************************************************************************)
(* TCP packets (packets.rs)                                                *)
(***************************************************************************)
NoPacket == [seq_num |-> U32Of(0), sub_channel |-> 0, payload |-> <<>>]

ReadResult(st, err, len, packet, rest) ==
    [st |-> st, err |-> err, len |-> len, packet |-> packet, rest |-> rest]

\* U32FromBE without the two high bytes
U32FromBE_LowHalf(b) == [hi |-> 0, lo |-> b[3] * 256 + b[4]]

\* (b0 << 24) | (b1 << 16) | (b2 << 8) | b3
U32FromBE(b) == [hi |-> b[1] * 256 + b[2], lo |-> b[3] * 256 + b[4]]

\* U32ToBE with the least significant byte first
U32ToBE_LittleEndian(x) == <<x.lo % 256, x.lo \div 256, x.hi % 256, x.hi \div 256>>

\* [(x >> 24) as u8, (x >> 16) as u8, (x >> 8) as u8, x as u8]
U32ToBE(x) == <<x.hi \div 256, x.hi % 256, x.lo \div 256, x.lo % 256>>

\* InvalidLength that rejects the bare preamble too
InvalidLength_OffByOne(len) == len <= 5

\* a frame length below the preamble size is rejected
InvalidLength(len) == len < 5

TCPPacket_read(s, end) ==
    LET l == read_var_uint(s, end)
        len == U64ToNat(l.value)
    IN
    IF l.st = "Pending" THEN ReadResult("Pending", "", 0, NoPacket, s)
    ELSE IF l.st = "None" THEN ReadResult("None", "", 0, NoPacket, l.rest)
    ELSE IF l.st = "Err" THEN ReadResult("Err", "IoError", 0, NoPacket, l.rest)
    ELSE IF InvalidLength(len)
    THEN ReadResult("Err", "InvalidPacketLength", len, NoPacket, l.rest)
    ELSE LET pre == ReadExact(l.rest, end, 5) IN
         IF pre.st = "Pending" THEN ReadResult("Pending", "", len, NoPacket, s)
         ELSE IF pre.st = "Err" THEN ReadResult("Err", "IoError", len, NoPacket, pre.rest)
         ELSE LET pay == ReadExact(pre.rest, end, len - 5) IN
              IF pay.st = "Pending" THEN ReadResult("Pending", "", len, NoPacket, s)
              ELSE IF pay.st = "Err"
              THEN ReadResult("Err", "IoError", len, NoPacket, pay.rest)
              ELSE ReadResult("Some", "", len,
                              [seq_num |-> U32FromBE(pre.bytes),
                               sub_channel |-> pre.bytes[5],
                               payload |-> pay.bytes],
                              pay.rest)

TCPPacket_write(packet) ==
    write_var_uint(U64Of(5 + Len(packet.payload)))
        \o U32ToBE(packet.seq_num) \o <<packet.sub_channel>>
        \o packet.payload

(***************************************************************************)
(* The same over std::io (sync/packets.rs)                                 *)
(***************************************************************************)
RECURSIVE sync_read_var_uint_loop(_, _, _, _)
sync_read_var_uint_loop(value, byte, rest, end) ==
    LET v == Shl7Or(value, byte % 128) IN
    IF byte >= 128
    THEN [st |-> "Some", value |-> v, rest |-> rest]
    ELSE LET r == ReadExact(rest, end, 1) IN
         IF r.st = "Ok"
         THEN sync_read_var_uint_loop(v, r.bytes[1], r.rest, end)
         ELSE [st |-> r.st, value |-> v, rest |-> r.rest]

sync_read_var_uint(s, end) ==
    LET r == ReadExact(s, end, 1) IN
    IF r.st = "Pending" THEN [st |-> "Pending", value |-> U64Of(0), rest |-> s]
    ELSE IF r.st = "Err" THEN [st |-> "None", value |-> U64Of(0), rest |-> r.rest]
    ELSE sync_read_var_uint_loop(U64Of(0), r.bytes[1], r.rest, end)

sync_TCPPacket_read(s, end) ==
    LET l == sync_read_var_uint(s, end)
        len == U64ToNat(l.value)
    IN
    IF l.st = "Pending" THEN ReadResult("Pending", "", 0, NoPacket, s)
    ELSE IF l.st = "None" THEN ReadResult("None", "", 0, NoPacket, l.rest)
    ELSE IF l.st = "Err" THEN ReadResult("Err", "IoError", 0, NoPacket, l.rest)
    ELSE IF len < 5
    THEN ReadResult("Err", "InvalidPacketLength", len, NoPacket, l.rest)
    ELSE LET pre == ReadExact(l.rest, end, 5) IN
         IF pre.st = "Pending" THEN ReadResult("Pending", "", len, NoPacket, s)
         ELSE IF pre.st = "Err" THEN ReadResult("Err", "IoError", len, NoPacket, pre.rest)
         ELSE LET pay == ReadExact(pre.rest, end, len - 5) IN
              IF pay.st = "Pending" THEN ReadResult("Pending", "", len, NoPacket, s)
              ELSE IF pay.st = "Err"
              THEN ReadResult("Err", "IoError", len, NoPacket, pay.rest)
              ELSE ReadResult("Some", "", len,
                              [seq_num |-> U32FromBE(pre.bytes),
                               sub_channel |-> pre.bytes[5],
                               payload |-> pay.bytes],
                              pay.rest)

RECURSIVE sync_write_var_uint_loop(_, _)
sync_write_var_uint_loop(buf, value) ==
    LET v == Shr7(value) IN
    IF U64IsZero(v) THEN buf
    ELSE sync_write_var_uint_loop(Append(buf, v[U64Digits]), v)

sync_write_var_uint(value) ==
    Reverse(sync_write_var_uint_loop(<<value[U64Digits] + 128>>, value))

(***************************************************************************)
(* Application messages (fast.rs).  The FAST decoder is an external        *)
(* library: which message a payload holds and how many bytes it takes are  *)
(* chosen by the environment.  A message keeps the fields the client reads.*)
(***************************************************************************)
Variants ==
    {"MDIncRefresh", "MDSecurityDefinition", "MDSnapshotFullRefresh", "MDHeartbeat",
     "MDLogon", "MDLogout", "MDSecurityDefinitionRequest", "SequenceReset",
     "MDSecurityStatus", "News", "ApplicationMessageRequestAck", "UserNotification"}

Msg(variant, seq, tot, appl, sec) ==
    [variant |-> variant, msg_seq_num |-> seq, tot_num_reports |-> tot,
     appl_id |-> appl, security_id |-> sec]

NoMsg == Msg("None", U32Of(0), 0, <<>>, 0)

\* sequence numbers the peer puts in packet preambles and message headers
PktSeqNums ==
    {U32Of(0), U32Of(1), U32Of(2), U32Of(5), U32Of(6), WrappingSub1(U32_MAX), U32_MAX}

MsgSeqNums == {U32Of(1), U32Of(2), U32_MAX}

\* ApplID strings, as characters
ApplIds == {<<"1">>, <<"0", "1">>, <<"2">>, <<"x">>}

SecurityIds == {7, 8}

TotNumReports == {1, 2}

\* the variants SDSConnection::read_message takes the sequence number of
SessionVariants ==
    {"MDSecurityDefinition", "MDHeartbeat", "MDLogon", "MDLogout",
     "MDSecurityDefinitionRequest"}

\* messages the decoder yields where the sequence numbers are explored
SeqMessages ==
    {Msg("MDHeartbeat", s, 0, <<>>, 0) : s \in MsgSeqNums}
    \cup {Msg("MDIncRefresh", U32Of(1), 0, <<>>, 0)}

\* messages the decoder yields where the variants and the catalog are explored
CatalogMessages ==
    {Msg("MDSecurityDefinition", U32Of(1), t, a, i) :
        t \in TotNumReports, a \in ApplIds, i \in SecurityIds}
    \cup {Msg(v, U32Of(1), 0, <<>>, 0) : v \in Variants \ {"MDSecurityDefinition"}}

\* messages the decoder yields where the transport is explored
PlainMessages == {Msg("MDHeartbeat", U32Of(1), 0, <<>>, 0)}

\* packet sequence numbers where they are not explored
PlainSeqNums == {U32Of(1)}

\* fastlib::from_bytes(&mut decoder, &mut buff): fails having consumed n >= 0
\* bytes, or yields a message of msgs having consumed n >= 1 bytes
DecodeOutcomes(b, msgs) ==
    {[ok |-> FALSE, n |-> n, msg |-> NoMsg] : n \in 0..Len(b)}
    \cup {[ok |-> TRUE, n |-> n, msg |-> m] : n \in 1..Len(b), m \in msgs}

(***************************************************************************)
(* str::parse::<u32>: an optional '+', then one or more decimal digits;    *)
(* the value must not exceed u32::MAX.                                     *)
(***************************************************************************)
Digits == <<"0", "1", "2", "3", "4", "5", "6", "7", "8", "9">>

IsDigit(c) == \E d \in 1..10 : Digits[d] = c

DigitVal(c) == (CHOOSE d \in 1..10 : Digits[d] = c) - 1

RECURSIVE ParseDigits(_, _)
ParseDigits(chars, acc) ==
    IF chars = <<>> THEN [ok |-> TRUE, value |-> acc]
    ELSE IF ~IsDigit(Head(chars)) THEN [ok |-> FALSE, value |-> 0]
    ELSE IF acc > 429496729 \/ (acc = 429496729 /\ DigitVal(Head(chars)) > 5)
    THEN [ok |-> FALSE, value |-> 0]
    ELSE ParseDigits(Tail(chars), acc * 10 + DigitVal(Head(chars)))

ParseU32(chars) ==
    LET digits == IF chars # <<>> /\ Head(chars) = "+" THEN Tail(chars) ELSE chars IN
    IF digits = <<>> THEN [ok |-> FALSE, value |-> 0]
    ELSE ParseDigits(digits, 0)

(***************************************************************************)
(* Control messages (fix.rs): the tag=value fields of the message text.    *)
(***************************************************************************)
SendingTimes == {"20250620-10:22:47"}

Users == {"user"}

Passwords == {"password"}

FeedIds == {85}

header(sequence, msg_type, sending_time) ==
    <<<<"35", msg_type>>, <<"34", sequence>>, <<"49", "CQG">>, <<"52", sending_time>>>>

login(sequence, user, password, heartbeat_interval_sec, sending_time) ==
    header(sequence, "A", sending_time)
        \o <<<<"108", heartbeat_interval_sec>>, <<"553", user>>, <<"554", password>>>>

logout(sequence, message, sending_time) ==
    header(sequence, "5", sending_time) \o <<<<"58", message>>>>

request(sequence, feed_id, sending_time) ==
    header(sequence, "c", sending_time) \o <<<<"1180", feed_id>>>>

\* the value of a tag of a control message
Field(msg, tag) == msg[CHOOSE i \in 1..Len(msg) : msg[i][1] = tag][2]

(***************************************************************************)
(* State                                                                   *)
(***************************************************************************)
VARIABLES
    source,            \* SDSConnection.source: "None", "Tcp" or "File"
    in_seq_num_pkt,    \* SDSConnection.in_seq_num_pkt
    in_seq_num_msg,    \* SDSConnection.in_seq_num_msg
    out_seq_num,       \* SDSConnection.out_seq_num
    buff,              \* SDSConnection.buff, the residual buffer
    defs_count_total,  \* SDSClient.defs_count_total
    defs_count,        \* SDSClient.defs_count
    sec_ids,           \* SDSClient.sec_ids
    wire,              \* bytes of the transport not yet read
    wire_end,          \* how the transport ends after them
    sent,              \* control messages written and flushed to the peer
    connects,          \* connect / read_file calls made
    overflow_checks,   \* the build panics on integer overflow
    observed,          \* keys of the security definitions returned so far
    ret                \* the last call and what it returned

vars == <<source, in_seq_num_pkt, in_seq_num_msg, out_seq_num, buff,
          defs_count_total, defs_count, sec_ids, wire, wire_end, sent,
          connects, overflow_checks, observed, ret>>

conn_vars == <<in_seq_num_pkt, in_seq_num_msg, out_seq_num, buff>>

client_vars == <<defs_count_total, defs_count, sec_ids, observed>>

\* what a call returned: kind is "Ok" (Ok(()) or Ok(Some(..))), "None"
\* (Ok(None)), "Err" or "Panic"; msg is the message decoded, if any; a
\* login, request or logout also records out_seq_num and the number of
\* messages sent as they were when it was called; feeds is the Feeds
\* argument of subscribe_feeds; value and bytes are the u64 and the bytes a
\* codec call was given or produced; args are the arguments of a call that
\* builds a control message; tokens are the tokens a feed list is made
\* of and bad is the argument that an "Invalid argument" error names
FixArgs(sequence, text, password, number, now) ==
    [sequence |-> sequence, password |-> password, text |-> text,
     number |-> number, now |-> now]

Ret(op, kind, err) ==
    [value |-> U64Of(0), bytes |-> <<>>, err |-> err, len |-> 0,
     packet |-> NoPacket, msg |-> NoMsg, op |-> op, kind |-> kind,
     is_update |-> FALSE, out_before |-> U32Of(0), sent_before |-> 0,
     feeds |-> <<>>, args |-> FixArgs(U32Of(0), <<>>, <<>>, U32Of(0), <<>>),
     tokens |-> <<>>, bad |-> <<>>]

\* SDSConnection::new and SDSClient::new
Init ==
    /\ source = "None"
    /\ in_seq_num_pkt = U32Of(1)
    /\ in_seq_num_msg = U32Of(1)
    /\ out_seq_num = U32Of(1)
    /\ buff = <<>>
    /\ defs_count_total = 0
    /\ defs_count = 0
    /\ sec_ids = {}
    /\ wire = <<>>
    /\ wire_end = "open"
    /\ sent = <<>>
    /\ connects = 0
    /\ overflow_checks \in BOOLEAN
    /\ observed = {}
    /\ ret = Ret("new", "Ok", "")

Alive == ret.kind # "Panic"

(***************************************************************************)
(* The transport                                                           *)
(***************************************************************************)
Payload(n) == [i \in 1..n |-> 192]

\* payload sizes of the frames the peer sends
PayloadSizes == 0..MaxPayload

\* payload size where the frames' contents are not explored
PlainSizes == {1}

\* the peer sends one well-formed frame
PeerSendPacket(seqs, sizes) ==
    /\ source = "Tcp" /\ wire_end = "open"
    /\ \E seq \in seqs, n \in sizes :
         LET frame == TCPPacket_write([seq_num |-> seq, sub_channel |-> 0,
                                       payload |-> Payload(n)])
         IN /\ Len(wire) + Len(frame) <= MaxWire
            /\ wire' = wire \o frame
    /\ UNCHANGED <<source, conn_vars, client_vars, wire_end, sent, connects,
                   overflow_checks, ret>>

\* the peer sends a frame whose length field is below the preamble size
PeerSendBadLength ==
    /\ source = "Tcp" /\ wire_end = "open"
    /\ \E len \in 0..4 :
         LET frame == write_var_uint(U64Of(len)) \o U32ToBE(U32Of(1)) \o <<0>>
         IN /\ Len(wire) + Len(frame) <= MaxWire
            /\ wire' = wire \o frame
    /\ UNCHANGED <<source, conn_vars, client_vars, wire_end, sent, connects,
                   overflow_checks, ret>>

\* the stream ends, cleanly ("eof") or by a transport failure ("err"), after
\* the first `cut` of the bytes under way have arrived
TransportEnd ==
    /\ source = "Tcp" /\ wire_end = "open"
    /\ \E kind \in {"eof", "err"}, cut \in 0..Len(wire) :
         /\ wire_end' = kind
         /\ wire' = SubSeq(wire, 1, cut)
    /\ UNCHANGED <<source, conn_vars, client_vars, sent, connects,
                   overflow_checks, ret>>

(***************************************************************************)
(* SDSConnection::connect and read_file                                    *)
(***************************************************************************)
Connect ==
    /\ Alive /\ connects < MaxConnects
    /\ connects' = connects + 1
    /\ \E ok \in BOOLEAN :
         IF ok
         THEN /\ source' = "Tcp"
              /\ wire' = <<>>
              /\ wire_end' = "open"
              /\ ret' = Ret("connect", "Ok", "")
         ELSE /\ UNCHANGED <<source, wire, wire_end>>
              /\ ret' = Ret("connect", "Err", "IoError")
    /\ UNCHANGED <<conn_vars, client_vars, sent, overflow_checks>>

\* recorded files: prefixes of one frame, so that a recording may stop at
\* any byte of it
FileContents ==
    UNION {{SubSeq(f, 1, k) : k \in 0..Len(f)} :
             f \in {TCPPacket_write([seq_num |-> U32Of(1), sub_channel |-> 0,
                                     payload |-> Payload(n)]) : n \in 0..MaxPayload}}

\* a recorded file that holds one whole frame
PlainFiles ==
    {TCPPacket_write([seq_num |-> U32Of(1), sub_channel |-> 0, payload |-> Payload(1)])}

ReadFile(files) ==
    /\ Alive /\ connects < MaxConnects
    /\ connects' = connects + 1
    /\ \E ok \in BOOLEAN, content \in files, end \in {"eof", "err"} :
         IF ok
         THEN /\ source' = "File"
              /\ wire' = content
              /\ wire_end' = end
              /\ ret' = Ret("read_file", "Ok", "")
         ELSE /\ UNCHANGED <<source, wire, wire_end>>
              /\ ret' = Ret("read_file", "Err", "IoError")
    /\ UNCHANGED <<conn_vars, client_vars, sent, overflow_checks>>

(***************************************************************************)
(* SDSConnection::login, request and logout                                *)
(***************************************************************************)
\* SendOnTcp that counts a failed write as sent
SendOnTcp_CountsFailure(op, msg) ==
    \E io_ok \in BOOLEAN :
        LET add == CheckedAdd1(out_seq_num, overflow_checks) IN
        /\ sent' = IF io_ok THEN Append(sent, msg) ELSE sent
        /\ out_seq_num' = IF add.panic THEN out_seq_num ELSE add.value
        /\ ret' = [Ret(op, IF add.panic THEN "Panic" ELSE IF io_ok THEN "Ok" ELSE "Err",
                       IF io_ok THEN "" ELSE "IoError")
                     EXCEPT !.out_before = out_seq_num, !.sent_before = Len(sent)]

\* SendOnTcp that counts the message between write_all and flush, so that a
\* failed flush leaves it counted
SendOnTcp_CountsBeforeFlush(op, msg) ==
    \E failed \in {"none", "write_all", "flush"} :
        LET add == CheckedAdd1(out_seq_num, overflow_checks) IN
        /\ sent' = IF failed = "none" THEN Append(sent, msg) ELSE sent
        /\ out_seq_num' = IF failed = "write_all" \/ add.panic THEN out_seq_num
                          ELSE add.value
        /\ ret' = [Ret(op, IF failed # "none" THEN "Err"
                           ELSE IF add.panic THEN "Panic" ELSE "Ok",
                       IF failed # "none" THEN "IoError" ELSE "")
                     EXCEPT !.out_before = out_seq_num, !.sent_before = Len(sent)]

\* the body of `if let Some(DataSource::Tcp(stream)) = &mut self.source`:
\* write_all, flush, then out_seq_num += 1
SendOnTcp(op, msg) ==
    \E io_ok \in BOOLEAN :
        IF io_ok
        THEN LET add == CheckedAdd1(out_seq_num, overflow_checks) IN
             /\ sent' = Append(sent, msg)
             /\ out_seq_num' = IF add.panic THEN out_seq_num ELSE add.value
             /\ ret' = [Ret(op, IF add.panic THEN "Panic" ELSE "Ok", "")
                          EXCEPT !.out_before = out_seq_num,
                                 !.sent_before = Len(sent)]
        ELSE /\ UNCHANGED <<sent, out_seq_num>>
             /\ ret' = [Ret(op, "Err", "IoError")
                          EXCEPT !.out_before = out_seq_num,
                                 !.sent_before = Len(sent)]

\* WritesTo that takes any selected transport
WritesTo_AnySource(src) == src # "None"

\* the transports on which a control message is written
WritesTo(src) == src = "Tcp"

Send(op, msg) ==
    /\ Alive
    /\ IF WritesTo(source)
       THEN Len(sent) < MaxSent /\ SendOnTcp(op, msg)
       ELSE /\ UNCHANGED <<sent, out_seq_num>>
            /\ ret' = [Ret(op, "Ok", "")
                         EXCEPT !.out_before = out_seq_num,
                                !.sent_before = Len(sent)]
    /\ UNCHANGED <<source, in_seq_num_pkt, in_seq_num_msg, buff, client_vars,
                   wire, wire_end, connects, overflow_checks>>

Login ==
    \E user \in Users, password \in Passwords, now \in SendingTimes :
        Send("login", login(out_seq_num, user, password, 60, now))

Request ==
    \E feed_id \in FeedIds, now \in SendingTimes :
        Send("request", request(out_seq_num, feed_id, now))

Logout ==
    \E now \in SendingTimes :
        Send("logout", logout(out_seq_num, "Logout", now))

(***************************************************************************)
(* SDSClient::subscribe_feeds over the feeds of a Feeds value              *)
(***************************************************************************)
SubscribedIds == {85, 86, 90}

RECURSIVE SortedFeeds_Descending(_)
\* SortedFeeds that lists the ids from the largest down
SortedFeeds_Descending(ids) ==
    IF ids = {} THEN <<>>
    ELSE LET m == CHOOSE x \in ids : \A y \in ids : x >= y
         IN <<m>> \o SortedFeeds_Descending(ids \ {m})

RECURSIVE SortedFeeds(_)
\* Feeds.feeds for a set of ids: the ids pushed to a Vec, then
\* feeds.sort_unstable()
SortedFeeds(ids) ==
    IF ids = {} THEN <<>>
    ELSE LET m == CHOOSE x \in ids : \A y \in ids : x <= y
         IN <<m>> \o SortedFeeds(ids \ {m})

\* SDSConnection::request on a TCP transport, as a function of the session:
\* log is the messages sent so far, io_ok whether write_all and flush succeed
request_on_tcp(seq, log, feed_id, now, io_ok, checks) ==
    IF ~io_ok THEN [kind |-> "Err", sent |-> log, out |-> seq]
    ELSE LET add == CheckedAdd1(seq, checks) IN
         [kind |-> IF add.panic THEN "Panic" ELSE "Ok",
          sent |-> Append(log, request(seq, feed_id, now)),
          out |-> IF add.panic THEN seq ELSE add.value]

RECURSIVE subscribe_feeds_loop(_, _, _, _, _, _, _)
\* `for feed_id in feeds { self.subscribe(feed_id).await?; }` from the i-th
\* feed on; the write of the fail_at-th request fails (0: none does)
subscribe_feeds_loop(feeds, i, seq, log, fail_at, now, checks) ==
    IF i > Len(feeds) THEN [kind |-> "Ok", sent |-> log, out |-> seq]
    ELSE LET r == request_on_tcp(seq, log, feeds[i], now, i # fail_at, checks) IN
         IF r.kind # "Ok" THEN r
         ELSE subscribe_feeds_loop(feeds, i + 1, r.out, r.sent, fail_at, now, checks)

SubscribeFeeds ==
    /\ Alive
    /\ \E ids \in SUBSET SubscribedIds, now \in SendingTimes :
         LET feeds == SortedFeeds(ids) IN
         IF WritesTo(source)
         THEN /\ Len(sent) + Len(feeds) <= MaxSent
              /\ \E fail_at \in 0..Len(feeds) :
                   LET r == subscribe_feeds_loop(feeds, 1, out_seq_num, sent, fail_at,
                                                 now, overflow_checks)
                   IN /\ sent' = r.sent
                      /\ out_seq_num' = r.out
                      /\ ret' = [Ret("subscribe_feeds", r.kind,
                                      IF r.kind = "Err" THEN "IoError" ELSE "")
                                   EXCEPT !.feeds = feeds,
                                          !.out_before = out_seq_num,
                                          !.sent_before = Len(sent)]
         ELSE /\ UNCHANGED <<sent, out_seq_num>>
              /\ ret' = [Ret("subscribe_feeds", "Ok", "")
                           EXCEPT !.feeds = feeds,
                                  !.out_before = out_seq_num,
                                  !.sent_before = Len(sent)]
    /\ UNCHANGED <<source, in_seq_num_pkt, in_seq_num_msg, buff, client_vars,
                   wire, wire_end, connects, overflow_checks>>

(***************************************************************************)
(* SDSConnection::read_message and SDSClient::read_message                 *)
(***************************************************************************)
\* "check packet's sequence number": the counter after the check, or a
\* panic of one of the two additions (value is then the counter as left)
check_pkt_seq_num(expected, seq_num, checks) ==
    IF seq_num # expected
    THEN LET reset == CheckedAdd1(seq_num, checks) IN
         IF reset.panic THEN [panic |-> TRUE, value |-> expected]
         ELSE LET inc == CheckedAdd1(reset.value, checks) IN
              [panic |-> inc.panic,
               value |-> IF inc.panic THEN reset.value ELSE inc.value]
    ELSE LET inc == CheckedAdd1(expected, checks) IN
         [panic |-> inc.panic, value |-> IF inc.panic THEN expected ELSE inc.value]

\* "check message's sequence number"
check_msg_seq_num(expected, seq_num, checks) ==
    IF seq_num # expected
    THEN LET reset == CheckedAdd1(seq_num, checks) IN
         IF reset.panic THEN [panic |-> TRUE, value |-> expected]
         ELSE LET inc == CheckedAdd1(reset.value, checks) IN
              [panic |-> inc.panic,
               value |-> IF inc.panic THEN reset.value ELSE inc.value]
    ELSE LET inc == CheckedAdd1(expected, checks) IN
         [panic |-> inc.panic, value |-> IF inc.panic THEN expected ELSE inc.value]

\* HasSessionSeqNum with an arm for SequenceReset
HasSessionSeqNum_ExtraArm(variant) == variant \in SessionVariants \cup {"SequenceReset"}

\* the arms of `match &msg` that yield the header's sequence number; every
\* other variant takes the `_ => bail!` arm
HasSessionSeqNum(variant) == variant \in SessionVariants

\* PassesThrough without the arm for the security-definition request
PassesThrough_WithoutRequest(variant) ==
    variant \in {"MDHeartbeat", "MDLogon", "MDLogout"}

\* the arms of SDSClient::read_message that pass a message through
PassesThrough(variant) ==
    variant \in {"MDHeartbeat", "MDLogon", "MDLogout", "MDSecurityDefinitionRequest"}

CatalogKey(feed_id, security_id) == <<feed_id, security_id>>

\* IsUpdate that looks at the security id alone
IsUpdate_SecurityOnly(ids, key) == \E k \in ids : k[2] = key[2]

IsUpdate(ids, key) == key \in ids

\* NewTotal that keeps the first total reported
NewTotal_FirstWins(total, tot_num_reports) ==
    IF total = 0 THEN tot_num_reports ELSE total

\* the total after a security definition that reports tot_num_reports
NewTotal(total, tot_num_reports) == tot_num_reports

\* IsDefinition that takes a definition request for a definition
IsDefinition_WithRequest(variant) ==
    variant \in {"MDSecurityDefinition", "MDSecurityDefinitionRequest"}

\* the `Message::MDSecurityDefinition(m)` arm of SDSClient::read_message
IsDefinition(variant) == variant = "MDSecurityDefinition"

\* is_subscribed that also holds when more keys than the total were seen
is_subscribed_AtLeast(count, total) == count >= total

\* SDSClient::is_subscribed
is_subscribed(count, total) == count = total

\* progress that reports the share of the definitions still missing
progress_Remaining(count, total) ==
    IF total = 0 THEN [num |-> 0, den |-> 1]
    ELSE [num |-> (IF count > total THEN 0 ELSE total - count) * 100, den |-> total]

\* SDSClient::progress: the f64 value num / den.  Both counters convert to
\* f64 exactly and the division and the product are correctly rounded, so
\* the results are ordered as the fractions are and the result is 100.0
\* exactly when the fraction is.
progress(count, total) ==
    IF total = 0 THEN [num |-> 0, den |-> 1]
    ELSE [num |-> count * 100, den |-> total]

\* SDSClient::read_message on the message m that the connection returned
Catalog(m) ==
    IF IsDefinition(m.variant)
    THEN LET p == ParseU32(m.appl_id)
             key == CatalogKey(p.value, m.security_id)
             is_update == IsUpdate(sec_ids, key)
         IN /\ defs_count_total' = NewTotal(defs_count_total, m.tot_num_reports)
            /\ IF ~p.ok
               THEN /\ ret' = [Ret("read_message", "Err", "ParseIntError")
                                 EXCEPT !.msg = m]
                    /\ UNCHANGED <<sec_ids, defs_count, observed>>
               ELSE /\ sec_ids' = IF is_update THEN sec_ids ELSE sec_ids \cup {key}
                    /\ defs_count' = IF is_update THEN defs_count ELSE defs_count + 1
                    /\ observed' = observed \cup {<<p.value, m.security_id>>}
                    /\ ret' = [Ret("read_message", "Ok", "")
                                 EXCEPT !.msg = m, !.is_update = is_update]
    ELSE /\ UNCHANGED client_vars
         /\ ret' = IF PassesThrough(m.variant)
                   THEN [Ret("read_message", "Ok", "") EXCEPT !.msg = m]
                   ELSE [Ret("read_message", "Panic", "unreachable") EXCEPT !.msg = m]

\* from "decode message" on: b is the buffer to decode from, d what the
\* decoder makes of it
Decode(b, d) ==
    LET m == d.msg
        mk == check_msg_seq_num(in_seq_num_msg, m.msg_seq_num, overflow_checks)
    IN /\ buff' = SubSeq(b, d.n + 1, Len(b))
       /\ IF ~d.ok
          THEN /\ ret' = Ret("read_message", "Err", "DecodeError")
               /\ UNCHANGED <<in_seq_num_msg, client_vars>>
          ELSE IF ~HasSessionSeqNum(m.variant)
          THEN /\ ret' = [Ret("read_message", "Err", "unexpected SDS message")
                            EXCEPT !.msg = m]
               /\ UNCHANGED <<in_seq_num_msg, client_vars>>
          ELSE /\ in_seq_num_msg' = mk.value
               /\ IF mk.panic
                  THEN /\ ret' = [Ret("read_message", "Panic", "overflow")
                                    EXCEPT !.msg = m]
                       /\ UNCHANGED client_vars
                  ELSE Catalog(m)

\* `None => bail!("source not initialized")`
ReadNoSource ==
    /\ buff = <<>> /\ source = "None"
    /\ ret' = Ret("read_message", "Err", "source not initialized")
    /\ UNCHANGED <<in_seq_num_pkt, in_seq_num_msg, buff, client_vars, wire>>

\* ReadNoPacket that counts a packet although none was read
ReadNoPacket_CountsPacket(R) ==
    /\ buff = <<>> /\ source # "None" /\ R.st \in {"None", "Err"}
    /\ wire' = R.rest
    /\ ret' = [Ret("read_message", IF R.st = "None" THEN "None" ELSE "Err", R.err)
                 EXCEPT !.len = R.len]
    /\ in_seq_num_pkt' = WrappingAdd1(in_seq_num_pkt)
    /\ UNCHANGED <<in_seq_num_msg, buff, client_vars>>

\* TCPPacket::read returns an error or None
ReadNoPacket(R) ==
    /\ buff = <<>> /\ source # "None" /\ R.st \in {"None", "Err"}
    /\ wire' = R.rest
    /\ ret' = [Ret("read_message", IF R.st = "None" THEN "None" ELSE "Err", R.err)
                 EXCEPT !.len = R.len]
    /\ UNCHANGED <<in_seq_num_pkt, in_seq_num_msg, buff, client_vars>>

\* a packet is read and its first message decoded
ReadPacket(R, msgs) ==
    /\ buff = <<>> /\ source # "None" /\ R.st = "Some"
    /\ wire' = R.rest
    /\ LET pk == check_pkt_seq_num(in_seq_num_pkt, R.packet.seq_num, overflow_checks)
       IN /\ in_seq_num_pkt' = pk.value
          /\ IF pk.panic
             THEN /\ ret' = Ret("read_message", "Panic", "overflow")
                  /\ UNCHANGED <<in_seq_num_msg, buff, client_vars>>
             ELSE \E d \in DecodeOutcomes(R.packet.payload, msgs) :
                     Decode(R.packet.payload, d)

\* ReadResidual that counts a packet for every message it decodes
ReadResidual_CountsPacket(msgs) ==
    /\ buff # <<>>
    /\ wire' = wire
    /\ in_seq_num_pkt' = WrappingAdd1(in_seq_num_pkt)
    /\ \E d \in DecodeOutcomes(buff, msgs) : Decode(buff, d)

\* the residual buffer holds bytes: the next message is decoded from it
ReadResidual(msgs) ==
    /\ buff # <<>>
    /\ UNCHANGED <<wire, in_seq_num_pkt>>
    /\ \E d \in DecodeOutcomes(buff, msgs) : Decode(buff, d)

\* read_message, the decoder yielding messages of msgs
ReadMessage(msgs) ==
    /\ Alive
    /\ \/ ReadNoSource
       \/ ReadNoPacket(TCPPacket_read(wire, wire_end))
       \/ ReadPacket(TCPPacket_read(wire, wire_end), msgs)
       \/ ReadResidual(msgs)
    /\ UNCHANGED <<source, out_seq_num, wire_end, sent, connects, overflow_checks>>

\* bytes of the frames that reach the client one at a time: 134 is the
\* length 6 with the stop bit, 0 fills the preamble and the payload
ArrivingBytes == {0, 134}

\* one more byte of what the peer has sent reaches the client
PeerSendByte ==
    /\ source = "Tcp" /\ wire_end = "open"
    /\ Len(wire) < MaxArrived
    /\ \E b \in ArrivingBytes : wire' = Append(wire, b)
    /\ UNCHANGED <<source, conn_vars, client_vars, wire_end, sent, connects,
                   overflow_checks, ret>>

\* read_message is dropped by `tokio::select!` (the cancellation token wins)
\* while TCPPacket::read waits for the rest of a frame.  The k bytes that
\* the read_exact calls have taken from the stream so far lived in the
\* dropped future and are gone; the session's fields were not yet touched.
ReadCancelled ==
    /\ Alive
    /\ buff = <<>> /\ source # "None"
    /\ TCPPacket_read(wire, wire_end).st = "Pending"
    /\ \E k \in 0..Len(wire) : wire' = SubSeq(wire, k + 1, Len(wire))
    /\ ret' = Ret("read_message", "Cancelled", "")
    /\ UNCHANGED <<source, conn_vars, client_vars, wire_end, sent, connects,
                   overflow_checks>>

(***************************************************************************)
(* Specifications.  Each explores the whole of the operations it lists,    *)
(* the peer and the decoder drawing their values from the sets named.      *)
(***************************************************************************)
\* sequence numbers: any packet and message sequence numbers
NextSeq ==
    \/ Connect
    \/ ReadMessage(SeqMessages)
    \/ PeerSendPacket(PktSeqNums, PayloadSizes)

SpecSeq == Init /\ [][NextSeq]_vars

\* variants and catalog: any message variant and security definition
NextCatalog ==
    \/ Connect
    \/ ReadMessage(CatalogMessages)
    \/ PeerSendPacket(PlainSeqNums, PayloadSizes)

SpecCatalog == Init /\ [][NextCatalog]_vars

\* control messages: any interleaving of the calls on any transport
NextSend ==
    \/ Connect
    \/ ReadFile(PlainFiles)
    \/ Login
    \/ Request
    \/ Logout
    \/ ReadMessage(PlainMessages)
    \/ PeerSendPacket(PlainSeqNums, PlainSizes)

SpecSend == Init /\ [][NextSend]_vars

\* transport: frames cut short, bad lengths, end of stream and failures
NextIo ==
    \/ Connect
    \/ ReadFile(FileContents)
    \/ ReadMessage(PlainMessages)
    \/ PeerSendPacket(PlainSeqNums, PayloadSizes)
    \/ PeerSendBadLength
    \/ TransportEnd

SpecIo == Init /\ [][NextIo]_vars

\* cancellation: frames arrive byte by byte and a waiting read is dropped
NextCancel ==
    \/ Connect
    \/ PeerSendByte
    \/ ReadMessage(PlainMessages)
    \/ ReadCancelled

SpecCancel == Init /\ [][NextCancel]_vars

\* subscription: the feeds of any Feeds value are requested in one call
NextSubscribe ==
    \/ Connect
    \/ Login
    \/ SubscribeFeeds
    \/ Logout

SpecSubscribe == Init /\ [][NextSubscribe]_vars

(***************************************************************************)
(* TCPPacket::read on its own: a byte stream that has ended is read frame  *)
(* by frame, by the tokio reader or by the std::io reader.                 *)
(***************************************************************************)
\* length prefixes: the VarUint of 0 .. 5 + MaxPayload, the same behind a
\* zero group (two bytes), 133 in two bytes, and prefixes with no stop bit
LenPrefixes ==
    {write_var_uint(U64Of(n)) : n \in 0..(5 + MaxPayload)}
    \cup {<<0>> \o write_var_uint(U64Of(n)) : n \in 0..(5 + MaxPayload)}
    \cup {<<>>, <<0>>, <<1>>, <<0, 0>>, <<1, 133>>}

BodyBytes == {0, 133}

RECURSIVE Bodies(_)
\* the byte sequences of length n over BodyBytes
Bodies(n) ==
    IF n = 0 THEN {<<>>}
    ELSE {Append(b, x) : b \in Bodies(n - 1), x \in BodyBytes}

Streams ==
    {p \o b : p \in LenPrefixes, b \in UNION {Bodies(n) : n \in 0..MaxStream}}

InitFrame ==
    /\ source = "None"
    /\ in_seq_num_pkt = U32Of(1)
    /\ in_seq_num_msg = U32Of(1)
    /\ out_seq_num = U32Of(1)
    /\ buff = <<>>
    /\ defs_count_total = 0
    /\ defs_count = 0
    /\ sec_ids = {}
    /\ wire \in Streams
    /\ wire_end \in {"eof", "err"}
    /\ sent = <<>>
    /\ connects = 0
    /\ overflow_checks \in BOOLEAN
    /\ observed = {}
    /\ ret = Ret("new", "Ok", "")

FrameResult(op, R) ==
    [Ret(op, IF R.st = "Some" THEN "Ok" ELSE R.st, R.err)
        EXCEPT !.len = R.len, !.packet = R.packet]

\* packets::TCPPacket::read(&mut input)
FrameRead ==
    LET R == TCPPacket_read(wire, wire_end) IN
    /\ R.st # "Pending"
    /\ wire' = R.rest
    /\ ret' = FrameResult("TCPPacket::read", R)
    /\ UNCHANGED <<source, conn_vars, client_vars, wire_end, sent, connects,
                   overflow_checks>>

\* sync::packets::TCPPacket::read(&mut input)
SyncFrameRead ==
    LET R == sync_TCPPacket_read(wire, wire_end) IN
    /\ R.st # "Pending"
    /\ wire' = R.rest
    /\ ret' = FrameResult("sync::TCPPacket::read", R)
    /\ UNCHANGED <<source, conn_vars, client_vars, wire_end, sent, connects,
                   overflow_checks>>

NextFrame ==
    \/ FrameRead
    \/ SyncFrameRead

SpecFrame == InitFrame /\ [][NextFrame]_vars

(***************************************************************************)
(* UDPPacket::read on its own                                              *)
(***************************************************************************)
\* UDPPacket::read that also rejects a buffer of exactly five bytes
UDPPacket_read_StrictLength(buffer) ==
    IF Len(buffer) <= 5
    THEN [st |-> "Err", err |-> "InvalidPacketLength", len |-> Len(buffer),
          packet |-> NoPacket]
    ELSE [st |-> "Ok", err |-> "", len |-> 0,
          packet |-> [seq_num |-> U32FromBE(buffer), sub_channel |-> buffer[5],
                      payload |-> SubSeq(buffer, 6, Len(buffer))]]

\* UDPPacket::read(buffer): len is the argument of InvalidPacketLength
UDPPacket_read(buffer) ==
    IF Len(buffer) < 5
    THEN [st |-> "Err", err |-> "InvalidPacketLength", len |-> Len(buffer),
          packet |-> NoPacket]
    ELSE [st |-> "Ok", err |-> "", len |-> 0,
          packet |-> [seq_num |-> U32FromBE(buffer), sub_channel |-> buffer[5],
                      payload |-> SubSeq(buffer, 6, Len(buffer))]]

DatagramBytes == {0, 7, 255}

RECURSIVE Datagrams(_)
\* the byte sequences of length n over DatagramBytes
Datagrams(n) ==
    IF n = 0 THEN {<<>>}
    ELSE {Append(b, x) : b \in Datagrams(n - 1), x \in DatagramBytes}

\* a session as SDSConnection::new and SDSClient::new leave it, which the
\* operations checked on their own never touch
NewSession ==
    /\ source = "None"
    /\ in_seq_num_pkt = U32Of(1)
    /\ in_seq_num_msg = U32Of(1)
    /\ out_seq_num = U32Of(1)
    /\ buff = <<>>
    /\ defs_count_total = 0
    /\ defs_count = 0
    /\ sec_ids = {}
    /\ sent = <<>>
    /\ connects = 0
    /\ observed = {}

\* wire holds the datagram that was received
InitUdp ==
    /\ NewSession
    /\ wire \in UNION {Datagrams(n) : n \in 0..MaxDatagram}
    /\ wire_end = "eof"
    /\ overflow_checks \in BOOLEAN
    /\ ret = Ret("new", "Ok", "")

\* UDPPacket::read(&buffer) on the datagram, which it borrows
UdpRead ==
        LET R == UDPPacket_read(wire) IN
        /\ ret' = [Ret("UDPPacket::read", R.st, R.err)
                     EXCEPT !.len = R.len, !.packet = R.packet, !.bytes = wire]
        /\ UNCHANGED <<source, conn_vars, client_vars, wire, wire_end, sent,
                       connects, overflow_checks>>

NextUdp ==
    \/ UdpRead

SpecUdp == InitUdp /\ [][NextUdp]_vars

(***************************************************************************)
(* fix.rs: the control messages as the bytes that are sent.  A text is the *)
(* sequence of its UTF-8 bytes.                                            *)
(***************************************************************************)
SOH == 1       \* "\x01"
Pipe == 124    \* '|'

RECURSIVE FormatNat(_)
\* Display of an unsigned integer: its decimal digits, no sign, no padding
FormatNat(n) ==
    IF n < 10 THEN <<48 + n>>
    ELSE Append(FormatNat(n \div 10), 48 + (n % 10))

\* FormatU8 that pads the text with zeros to three digits
FormatU8_ZeroPadded(n) == <<48 + (n \div 100), 48 + ((n \div 10) % 10), 48 + (n % 10)>>

\* "{crc}" for crc: u8
FormatU8(n) == FormatNat(n)

\* the quotient and the remainder of a u32 divided by 10
U32DivMod10(x) ==
    LET low == (x.hi % 10) * 65536 + x.lo
    IN [q |-> [hi |-> x.hi \div 10, lo |-> low \div 10], r |-> low % 10]

RECURSIVE FormatU32(_)
\* "{sequence}", "{feed_id}", "{heartbeat_interval_sec}" for a u32
FormatU32(x) ==
    LET d == U32DivMod10(x)
    IN IF d.q = U32Of(0) THEN <<48 + d.r>>
       ELSE Append(FormatU32(d.q), 48 + d.r)

\* header with the sender before the sequence number
header_text_SenderFirst(sequence, msg_type, sending_time) ==
    <<51, 53, 61>> \o msg_type \o <<124, 52, 57, 61, 67, 81, 71>>    \* "35=" "|49=CQG"
        \o <<124, 51, 52, 61>> \o FormatU32(sequence)    \* "|34="
        \o <<124, 53, 50, 61>> \o sending_time    \* "|52="

\* header(sequence, msg_type), sending_time being Utc::now() formatted
\* "%Y%m%d-%H:%M:%S": "35={msg_type}|34={sequence}|49=CQG|52={sending_time}"
header_text(sequence, msg_type, sending_time) ==
    <<51, 53, 61>> \o msg_type \o <<124, 51, 52, 61>>    \* "35=" "|34="
        \o FormatU32(sequence) \o <<124, 52, 57, 61, 67, 81, 71, 124, 53, 50, 61>>    \* "|49=CQG|52="
        \o sending_time

\* text.replace('|', SOH)
ReplacePipe(str) == [i \in 1..Len(str) |-> IF str[i] = Pipe THEN SOH ELSE str[i]]

\* wrapping_add that stops at 255
wrapping_add_Saturating(acc, c) == IF acc + c > 255 THEN 255 ELSE acc + c

\* u8::wrapping_add
wrapping_add(acc, c) == (acc + c) % 256

RECURSIVE Fold_wrapping_add(_, _, _)
\* bytes[i..j].iter().fold(0u8, |acc, c| acc.wrapping_add(*c)): wrapping_add
\* is associative and 0 is its unit, so the fold over a slice is the
\* wrapping_add of the folds over its two halves
Fold_wrapping_add(bytes, i, j) ==
    IF i > j THEN 0
    ELSE IF i = j THEN wrapping_add(0, bytes[i])
    ELSE wrapping_add(Fold_wrapping_add(bytes, i, (i + j) \div 2),
                      Fold_wrapping_add(bytes, (i + j) \div 2 + 1, j))

\* fixit whose length leaves out the delimiter that ends the text
fixit_LengthWithoutDelimiter(text) ==
    LET length == Len(text)
        framed == ReplacePipe(<<56, 61, 70, 73, 88, 46, 53, 46, 48, 46, 83, 80, 50, 124, 57, 61>> \o FormatNat(length) \o <<Pipe>> \o text \o <<Pipe>>)    \* "8=FIX.5.0.SP2|9="
        crc == Fold_wrapping_add(framed, 1, Len(framed))
    IN framed \o <<49, 48, 61>> \o FormatU8(crc) \o <<SOH>>    \* "10="

\* fixit(text)
fixit(text) ==
    LET length == Len(text) + 1
        framed == ReplacePipe(<<56, 61, 70, 73, 88, 46, 53, 46, 48, 46, 83, 80, 50, 124, 57, 61>> \o FormatNat(length) \o <<Pipe>> \o text \o <<Pipe>>)    \* "8=FIX.5.0.SP2|9="
        crc == Fold_wrapping_add(framed, 1, Len(framed))
    IN framed \o <<49, 48, 61>> \o FormatU8(crc) \o <<SOH>>    \* "10="

\* fix::login(sequence, user, password, heartbeat_interval_sec)
login_bytes(sequence, user, password, heartbeat_interval_sec, sending_time) ==
    fixit(header_text(sequence, <<65>>, sending_time)    \* "A"
            \o <<124, 49, 48, 56, 61>> \o FormatU32(heartbeat_interval_sec)    \* "|108="
            \o <<124, 53, 53, 51, 61>> \o user    \* "|553="
            \o <<124, 53, 53, 52, 61>> \o password)    \* "|554="

\* fix::logout(sequence, message)
logout_bytes(sequence, message, sending_time) ==
    fixit(header_text(sequence, <<53>>, sending_time) \o <<124, 53, 56, 61>> \o message)    \* "5" "|58="

\* fix::request(sequence, feed_id)
request_bytes(sequence, feed_id, sending_time) ==
    fixit(header_text(sequence, <<99>>, sending_time) \o <<124, 49, 49, 56, 48, 61>> \o FormatU32(feed_id))    \* "c" "|1180="

\* the inputs of the builders
FixSequences == {U32Of(1), U32Of(2), U32Of(3), U32Of(10), U32Of(65536), U32_MAX}

\* "20250620-10:22:47", "20250620-10:51:03", "20250620-10:53:14"
FixTimes ==
    {<<50, 48, 50, 53, 48, 54, 50, 48, 45, 49, 48, 58, 50, 50, 58, 52, 55>>,    \* "20250620-10:22:47"
     <<50, 48, 50, 53, 48, 54, 50, 48, 45, 49, 48, 58, 53, 49, 58, 48, 51>>,    \* "20250620-10:51:03"
     <<50, 48, 50, 53, 48, 54, 50, 48, 45, 49, 48, 58, 53, 51, 58, 49, 52>>}    \* "20250620-10:53:14"

\* "user", "", "a|b"
FixUsers == {<<117, 115, 101, 114>>, <<>>, <<97, 124, 98>>}    \* "user" "a|b"

\* "password", "p"
FixPasswords == {<<112, 97, 115, 115, 119, 111, 114, 100>>, <<112>>}    \* "password" "p"

\* "Logout", "", "a|b", "é"
FixTexts == {<<76, 111, 103, 111, 117, 116>>, <<>>, <<97, 124, 98>>, <<195, 169>>}    \* "Logout" "a|b" "é"

FixFeedIds == {U32Of(85), U32Of(0), U32_MAX}

FixIntervals == {U32Of(60)}

InitFix ==
    /\ NewSession
    /\ wire = <<>>
    /\ wire_end = "eof"
    /\ overflow_checks \in BOOLEAN
    /\ ret = Ret("new", "Ok", "")

\* a builder was called with args and returned bytes
FixBuilt(op, args, bytes) ==
    /\ ret' = [Ret(op, "Ok", "") EXCEPT !.args = args, !.bytes = bytes]
    /\ UNCHANGED <<source, conn_vars, client_vars, wire, wire_end, sent,
                   connects, overflow_checks>>

FixLogin ==
    \E sequence \in FixSequences, user \in FixUsers, password \in FixPasswords,
       interval \in FixIntervals, now \in FixTimes :
        FixBuilt("fix::login", FixArgs(sequence, user, password, interval, now),
                 login_bytes(sequence, user, password, interval, now))

FixLogout ==
    \E sequence \in FixSequences, message \in FixTexts, now \in FixTimes :
        FixBuilt("fix::logout", FixArgs(sequence, message, <<>>, U32Of(0), now),
                 logout_bytes(sequence, message, now))

FixRequest ==
    \E sequence \in FixSequences, feed_id \in FixFeedIds, now \in FixTimes :
        FixBuilt("fix::request", FixArgs(sequence, <<>>, <<>>, feed_id, now),
                 request_bytes(sequence, feed_id, now))

NextFix ==
    \/ FixLogin
    \/ FixLogout
    \/ FixRequest

SpecFix == InitFix /\ [][NextFix]_vars

(***************************************************************************)
(* feeds.rs: Feeds::from_strs and Feeds::from_str.  A token is the         *)
(* sequence of its characters.                                             *)
(***************************************************************************)
\* parse_number(a): a.parse::<u32>().ok()
parse_number(a) == ParseU32(a)

\* the index of the first '-' of a, 0 when it has none
FirstDash(a) ==
    IF \E i \in 1..Len(a) : a[i] = "-"
    THEN CHOOSE i \in 1..Len(a) : a[i] = "-" /\ \A k \in 1..(i - 1) : a[k] # "-"
    ELSE 0

\* parse_range(a): a.splitn(2, '-') gives the text before the first '-' and
\* the text after it; both must parse
parse_range(a) ==
    LET k == FirstDash(a) IN
    IF k = 0 THEN [ok |-> FALSE, start |-> 0, end |-> 0]
    ELSE LET first == parse_number(SubSeq(a, 1, k - 1))
             second == parse_number(SubSeq(a, k + 1, Len(a)))
         IN IF first.ok /\ second.ok
            THEN [ok |-> TRUE, start |-> first.value, end |-> second.value]
            ELSE [ok |-> FALSE, start |-> 0, end |-> 0]

\* start..=end without its last id
range_inclusive_WithoutEnd(start, end) == start..(end - 1)

\* the ids that `for i in start..=end` inserts
range_inclusive(start, end) == start..end

\* parse_and_push that takes an argument it cannot parse for no id
parse_and_push_SkipsInvalid(map, arg) ==
    IF parse_number(arg).ok
    THEN [ok |-> TRUE, map |-> map \cup {parse_number(arg).value}]
    ELSE IF parse_range(arg).ok
    THEN [ok |-> TRUE,
          map |-> map \cup range_inclusive(parse_range(arg).start, parse_range(arg).end)]
    ELSE [ok |-> TRUE, map |-> map]

\* parse_and_push(&mut map, arg): ok is FALSE for bail!("Invalid argument")
parse_and_push(map, arg) ==
    IF parse_number(arg).ok
    THEN [ok |-> TRUE, map |-> map \cup {parse_number(arg).value}]
    ELSE IF parse_range(arg).ok
    THEN [ok |-> TRUE,
          map |-> map \cup range_inclusive(parse_range(arg).start, parse_range(arg).end)]
    ELSE [ok |-> FALSE, map |-> map]

\* the feed ids of ids_set that ids_ignore_set does not contain
NotIgnored(ids_set, ids_ignore_set) == {feed_id \in ids_set : feed_id \notin ids_ignore_set}

RECURSIVE from_strs_loop(_, _, _, _)
\* the loop of from_strs from the i-th argument on, and what follows it
from_strs_loop(args, i, ids_set, ids_ignore_set) ==
    IF i > Len(args)
    THEN [kind |-> "Ok", bad |-> <<>>,
          feeds |-> SortedFeeds(NotIgnored(ids_set, ids_ignore_set))]
    ELSE IF args[i] # <<>> /\ args[i][1] = "!"
    THEN IF parse_and_push(ids_ignore_set, Tail(args[i])).ok
         THEN from_strs_loop(args, i + 1, ids_set,
                             parse_and_push(ids_ignore_set, Tail(args[i])).map)
         ELSE [kind |-> "Err", bad |-> Tail(args[i]), feeds |-> <<>>]
    ELSE IF parse_and_push(ids_set, args[i]).ok
         THEN from_strs_loop(args, i + 1, parse_and_push(ids_set, args[i]).map,
                             ids_ignore_set)
         ELSE [kind |-> "Err", bad |-> args[i], feeds |-> <<>>]

\* Feeds::from_strs(args)
from_strs(args) == from_strs_loop(args, 1, {}, {})

\* char::is_whitespace for the characters of the model
Whitespace == {" ", "\t"}

RECURSIVE TrimStart(_)
TrimStart(a) == IF a # <<>> /\ Head(a) \in Whitespace THEN TrimStart(Tail(a)) ELSE a

RECURSIVE TrimEnd(_)
TrimEnd(a) ==
    IF a # <<>> /\ a[Len(a)] \in Whitespace THEN TrimEnd(SubSeq(a, 1, Len(a) - 1)) ELSE a

\* s.trim()
Trim(a) == TrimEnd(TrimStart(a))

RECURSIVE SplitSpace(_)
\* arg.split(' '): the texts between the spaces, empty ones included
SplitSpace(a) ==
    IF \E i \in 1..Len(a) : a[i] = " "
    THEN LET k == CHOOSE i \in 1..Len(a) : a[i] = " " /\ \A j \in 1..(i - 1) : a[j] # " "
         IN <<SubSeq(a, 1, k - 1)>> \o SplitSpace(SubSeq(a, k + 1, Len(a)))
    ELSE <<a>>

RECURSIVE TrimmedNonEmpty(_)
\* .filter_map(|s| { let s = s.trim(); if s.is_empty() { None } else { Some(s) } })
TrimmedNonEmpty(parts) ==
    IF parts = <<>> THEN <<>>
    ELSE IF Trim(Head(parts)) = <<>> THEN TrimmedNonEmpty(Tail(parts))
    ELSE <<Trim(Head(parts))>> \o TrimmedNonEmpty(Tail(parts))

\* Feeds::from_str(arg)
from_str(arg) == from_strs(TrimmedNonEmpty(SplitSpace(arg)))

\* the tokens of the feed lists: "7", "1-3", "2-3", "3-1", "!2", "!1-2",
\* "!3-1", "+2", and "abc", "1-", "4294967296", "!!2", "", "1-2-3"
FeedTokens ==
    {<<"7">>, <<"1", "-", "3">>, <<"2", "-", "3">>, <<"3", "-", "1">>, <<"!", "2">>, <<"!", "1", "-", "2">>, <<"!", "3", "-", "1">>, <<"+", "2">>,
     <<"a", "b", "c">>, <<"1", "-">>, <<"4", "2", "9", "4", "9", "6", "7", "2", "9", "6">>, <<"!", "!", "2">>, <<>>, <<"1", "-", "2", "-", "3">>}

RECURSIVE TokenLists(_)
\* the lists of n tokens
TokenLists(n) ==
    IF n = 0 THEN {<<>>}
    ELSE {Append(l, t) : l \in TokenLists(n - 1), t \in FeedTokens}

\* what separates the tokens of the text given to from_str
Separators == {<<" ">>, <<" ", "\t", " ">>}

RECURSIVE Joined(_, _)
\* the tokens with sep between them
Joined(tokens, sep) ==
    IF tokens = <<>> THEN <<>>
    ELSE IF Len(tokens) = 1 THEN tokens[1]
    ELSE tokens[1] \o sep \o Joined(Tail(tokens), sep)

\* ret.tokens holds the tokens that the calls are given
InitFeeds ==
    /\ NewSession
    /\ wire = <<>>
    /\ wire_end = "eof"
    /\ overflow_checks = FALSE
    /\ \E n \in 0..MaxTokens : \E tokens \in TokenLists(n) :
         ret = [Ret("new", "Ok", "") EXCEPT !.tokens = tokens]

FeedsResult(op, R) ==
    /\ ret' = [Ret(op, R.kind, IF R.kind = "Err" THEN "Invalid argument" ELSE "")
                 EXCEPT !.tokens = ret.tokens, !.bad = R.bad, !.feeds = R.feeds]
    /\ UNCHANGED <<source, conn_vars, client_vars, wire, wire_end, sent,
                   connects, overflow_checks>>

\* Feeds::from_strs(&tokens)
FeedsFromStrs == FeedsResult("Feeds::from_strs", from_strs(ret.tokens))

\* Feeds::from_str(text), text being the tokens with a separator between
FeedsFromStr ==
    \E sep \in Separators :
        FeedsResult("Feeds::from_str", from_str(Joined(ret.tokens, sep)))

NextFeeds ==
    \/ FeedsFromStrs
    \/ FeedsFromStr

SpecFeeds == InitFeeds /\ [][NextFeeds]_vars

(***************************************************************************)
(* ffs-client: the receive loop of run.  wire holds the datagrams that     *)
(* wait in the socket; ret is what the last turn of the loop came to.      *)
(***************************************************************************)
\* loop_body that returns the error of a datagram it cannot parse
loop_body_ParseErrorReturns(raw, decode_ok) ==
    IF UDPPacket_read(raw).st = "Err"
    THEN [kind |-> "Err", err |-> UDPPacket_read(raw).err]
    ELSE IF ~decode_ok
    THEN [kind |-> "Skipped", err |-> "DecodeError"]
    ELSE [kind |-> "Message", err |-> ""]

\* the loop body after a datagram raw was received: `continue` when
\* UDPPacket::read or fastlib::from_slice fails (decode_ok is whether the
\* decoder accepts the payload), else the message is logged
loop_body(raw, decode_ok) ==
    IF UDPPacket_read(raw).st = "Err"
    THEN [kind |-> "Skipped", err |-> UDPPacket_read(raw).err]
    ELSE IF ~decode_ok
    THEN [kind |-> "Skipped", err |-> "DecodeError"]
    ELSE [kind |-> "Message", err |-> ""]

\* datagrams of 0, 4, 5, 6 and 7 bytes
FfsDatagrams ==
    {<<>>, <<0, 0, 0, 7>>, <<0, 0, 0, 7, 0>>, <<0, 0, 0, 7, 0, 192>>,
     <<0, 0, 0, 8, 0, 192, 192>>}

InitFfs ==
    /\ NewSession
    /\ wire = <<>>
    /\ wire_end = "open"
    /\ overflow_checks \in BOOLEAN
    /\ ret = Ret("new", "Ok", "")

\* run is in its loop: it has not returned
FfsRunning ==
    \/ ret.op = "new"
    \/ ret.op = "ffs-client::run" /\ ret.kind \in {"Skipped", "Message"}

\* a datagram reaches the socket
DatagramArrives ==
    /\ Len(wire) < MaxQueued
    /\ \E d \in FfsDatagrams : wire' = Append(wire, d)
    /\ UNCHANGED <<source, conn_vars, client_vars, wire_end, sent, connects,
                   overflow_checks, ret>>

\* `_ = token.cancelled() => break 'main`, then Ok(())
FfsCancelled ==
    /\ FfsRunning
    /\ ret' = Ret("ffs-client::run", "Ok", "")
    /\ UNCHANGED <<source, conn_vars, client_vars, wire, wire_end, sent,
                   connects, overflow_checks>>

\* `let n = result?` on a receive error
FfsRecvError ==
    /\ FfsRunning
    /\ ret' = Ret("ffs-client::run", "Err", "IoError")
    /\ UNCHANGED <<source, conn_vars, client_vars, wire, wire_end, sent,
                   connects, overflow_checks>>

\* socket.recv yields the next datagram and the loop body runs on it
FfsReceive ==
    /\ FfsRunning
    /\ wire # <<>>
    /\ wire' = Tail(wire)
    /\ \E decode_ok \in BOOLEAN :
         LET B == loop_body(Head(wire), decode_ok) IN
         ret' = [Ret("ffs-client::run", B.kind, B.err) EXCEPT !.bytes = Head(wire)]
    /\ UNCHANGED <<source, conn_vars, client_vars, wire_end, sent, connects,
                   overflow_checks>>

NextFfs ==
    \/ DatagramArrives
    \/ FfsCancelled
    \/ FfsRecvError
    \/ FfsReceive

SpecFfs == InitFfs /\ [][NextFfs]_vars

(***************************************************************************)
(* TCPPacket::write on its own: a packet is written to an empty stream,    *)
(* which is then read from its start.                                      *)
(***************************************************************************)
\* the buffers of the three write calls of TCPPacket::write, in their order
TCPPacket_write_chunks(packet) ==
    <<write_var_uint(U64Of(5 + Len(packet.payload))),
      U32ToBE(packet.seq_num) \o <<packet.sub_channel>>,
      packet.payload>>

\* the same for sync::packets::TCPPacket::write
sync_TCPPacket_write_chunks(packet) ==
    <<sync_write_var_uint(U64Of(5 + Len(packet.payload))),
      U32ToBE(packet.seq_num) \o <<packet.sub_channel>>,
      packet.payload>>

\* packets to write: payloads of 0, 1, 123 and 16385 bytes, whose lengths
\* take one, one, two and three bytes
WritePayloads == {<<>>, <<0>>, <<133>>, Payload(123), Payload(16385)}

WritePackets ==
    {[seq_num |-> q, sub_channel |-> c, payload |-> d] :
        q \in {U32Of(1), [hi |-> 258, lo |-> 772], U32_MAX},
        c \in {0, 7}, d \in WritePayloads}

InitWrite ==
    /\ source = "None"
    /\ in_seq_num_pkt = U32Of(1)
    /\ in_seq_num_msg = U32Of(1)
    /\ out_seq_num = U32Of(1)
    /\ buff = <<>>
    /\ defs_count_total = 0
    /\ defs_count = 0
    /\ sec_ids = {}
    /\ wire = <<>>
    /\ wire_end = "eof"
    /\ sent = <<>>
    /\ connects = 0
    /\ overflow_checks \in BOOLEAN
    /\ observed = {}
    /\ ret = Ret("new", "Ok", "")

\* the numbers of bytes a write_all that fails may have written before: none
\* or all but the last
PartialWrites(bytes) == IF bytes = <<>> THEN {0} ELSE {0, Len(bytes) - 1}

\* the write calls of TCPPacket::write on an empty stream, each ended by
\* `?`: all succeed, or the fail_at-th fails having written j bytes of its
\* buffer (write_all of an empty buffer writes nothing and cannot fail)
WriteChunks(op, chunks, packet) ==
    /\ wire = <<>>
    /\ \/ /\ wire' = chunks[1] \o chunks[2] \o chunks[3]
          /\ ret' = [Ret(op, "Ok", "") EXCEPT !.packet = packet]
       \/ \E fail_at \in 1..3 :
             /\ chunks[fail_at] # <<>>
             /\ \E j \in PartialWrites(chunks[fail_at]) :
                  wire' = (IF fail_at > 1 THEN chunks[1] ELSE <<>>)
                            \o (IF fail_at > 2 THEN chunks[2] ELSE <<>>)
                            \o SubSeq(chunks[fail_at], 1, j)
             /\ ret' = [Ret(op, "Err", "IoError") EXCEPT !.packet = packet]
    /\ UNCHANGED <<source, conn_vars, client_vars, wire_end, sent, connects,
                   overflow_checks>>

\* packets::TCPPacket::write(&self, &mut output)
PacketWrite ==
    \E packet \in WritePackets :
        WriteChunks("TCPPacket::write", TCPPacket_write_chunks(packet), packet)

\* sync::packets::TCPPacket::write(self, &mut output)
SyncPacketWrite ==
    \E packet \in WritePackets :
        WriteChunks("sync::TCPPacket::write", sync_TCPPacket_write_chunks(packet), packet)

NextWrite ==
    \/ PacketWrite
    \/ SyncPacketWrite
    \/ FrameRead
    \/ SyncFrameRead

SpecWrite == InitWrite /\ [][NextWrite]_vars

(***************************************************************************)
(* The VarUint codec on its own: values are written to a stream and read   *)
(* back, and streams that hold an encoding are read and written again.     *)
(***************************************************************************)
U64_MAX == [i \in 1..U64Digits |-> IF i = 1 THEN 1 ELSE 127]

\* u64 values: every value whose 7-bit groups are all clear or all set
\* (0 and u64::MAX among them), and some small ones
U64Values ==
    {[i \in 1..U64Digits |-> IF i = 1 THEN top ELSE low[i - 1]] :
        top \in {0, 1}, low \in [1..(U64Digits - 1) -> {0, 127}]}
    \cup {U64Of(n) : n \in {1, 5, 128, 16384}}

RECURSIVE Groups(_)
\* the sequences of n bytes with the stop bit clear, each 0 or 127
Groups(n) ==
    IF n = 0 THEN {<<>>}
    ELSE {Append(g, x) : g \in Groups(n - 1), x \in {0, 127}}

\* streams that hold one VarUint: up to eleven bytes, the last with the
\* stop bit, the first ones possibly 0
VarUintCodes ==
    {l \o g \o <<s>> : l \in {<<>>, <<1>>},
                       g \in UNION {Groups(n) : n \in 0..(U64Digits - 1)},
                       s \in {128, 255}}

InitCodec ==
    /\ source = "None"
    /\ in_seq_num_pkt = U32Of(1)
    /\ in_seq_num_msg = U32Of(1)
    /\ out_seq_num = U32Of(1)
    /\ buff = <<>>
    /\ defs_count_total = 0
    /\ defs_count = 0
    /\ sec_ids = {}
    /\ wire \in VarUintCodes \cup {<<>>}
    /\ wire_end = "eof"
    /\ sent = <<>>
    /\ connects = 0
    /\ overflow_checks \in BOOLEAN
    /\ observed = {}
    /\ ret = Ret("new", "Ok", "")


\* the values a stream is given to hold: any of U64Values on a new stream,
\* or the value just read from it
ValuesToWrite ==
    IF ret.op = "new" THEN U64Values
    ELSE IF ret.op \in {"read_var_uint", "sync::read_var_uint"} /\ ret.kind = "Ok"
    THEN {ret.value}
    ELSE {}

\* output.write_all(&buf) of write_var_uint on an empty stream: all of buf
\* is written, or the write fails after the first j bytes of it
WriteVarUint(op, code, v) ==
    /\ wire = <<>>
    /\ \/ /\ wire' = code
          /\ ret' = [Ret(op, "Ok", "") EXCEPT !.value = v, !.bytes = code]
       \/ \E j \in PartialWrites(code) :
             /\ wire' = SubSeq(code, 1, j)
             /\ ret' = [Ret(op, "Err", "IoError")
                          EXCEPT !.value = v, !.bytes = SubSeq(code, 1, j)]
    /\ UNCHANGED <<source, conn_vars, client_vars, wire_end, sent, connects,
                   overflow_checks>>

\* packets::write_var_uint(&mut output, value)
VarUintWrite ==
    \E v \in ValuesToWrite :
        WriteVarUint("write_var_uint", write_var_uint(v), v)

\* sync::packets::write_var_uint(&mut output, value)
SyncVarUintWrite ==
    \E v \in ValuesToWrite :
        WriteVarUint("sync::write_var_uint", sync_write_var_uint(v), v)

\* more bytes are written to the stream after a VarUint
StreamAppend ==
    /\ ret.op \in {"write_var_uint", "sync::write_var_uint"} /\ ret.kind = "Ok"
    /\ Len(wire) < Len(ret.bytes) + MaxTail
    /\ \E b \in BodyBytes : wire' = Append(wire, b)
    /\ UNCHANGED <<source, conn_vars, client_vars, wire_end, sent, connects,
                   overflow_checks, ret>>

\* what a read_var_uint call returned: the value and the bytes it took
VarUintResult(op, l) ==
    [Ret(op, IF l.st = "Some" THEN "Ok" ELSE l.st, IF l.st = "Err" THEN "IoError" ELSE "")
        EXCEPT !.value = l.value,
               !.bytes = SubSeq(wire, 1, Len(wire) - Len(l.rest))]

\* packets::read_var_uint(&mut input)
VarUintRead ==
    LET l == read_var_uint(wire, wire_end) IN
    /\ l.st # "Pending"
    /\ wire' = l.rest
    /\ ret' = VarUintResult("read_var_uint", l)
    /\ UNCHANGED <<source, conn_vars, client_vars, wire_end, sent, connects,
                   overflow_checks>>

\* sync::packets::read_var_uint(&mut input)
SyncVarUintRead ==
    LET l == sync_read_var_uint(wire, wire_end) IN
    /\ l.st # "Pending"
    /\ wire' = l.rest
    /\ ret' = VarUintResult("sync::read_var_uint", l)
    /\ UNCHANGED <<source, conn_vars, client_vars, wire_end, sent, connects,
                   overflow_checks>>

NextCodec ==
    \/ VarUintWrite
    \/ SyncVarUintWrite
    \/ StreamAppend
    \/ VarUintRead
    \/ SyncVarUintRead

SpecCodec == InitCodec /\ [][NextCodec]_vars

(***************************************************************************)
(* Steps and results the claims speak of                                   *)
(***************************************************************************)
\* a step in which read_message reads a packet from the transport
PacketRead ==
    /\ buff = <<>> /\ source # "None"
    /\ TCPPacket_read(wire, wire_end).st = "Some"
    /\ ret'.op = "read_message"
    /\ wire' = TCPPacket_read(wire, wire_end).rest
    /\ wire_end' = wire_end

\* the sequence number of the packet about to be read
ReceivedSeqNum == TCPPacket_read(wire, wire_end).packet.seq_num

\* a step in which read_message decodes a message
MessageDecoded ==
    /\ ret'.op = "read_message" /\ ret'.msg # NoMsg
    /\ wire_end' = wire_end
    /\ buff' # buff \/ Len(wire') < Len(wire)

FiveVariants ==
    {"MDSecurityDefinition", "MDHeartbeat", "MDLogon", "MDLogout",
     "MDSecurityDefinitionRequest"}

SendOps == {"login", "request", "logout"}

SendReturnedOk == ret.op \in SendOps /\ ret.kind = "Ok"

FrameOps == {"TCPPacket::read", "sync::TCPPacket::read"}

\* a step in which TCPPacket::read is applied to the stream
FrameReadStep == ret'.op \in FrameOps /\ (ret' # ret \/ wire' # wire)

(***************************************************************************)
(* Claims                                                                  *)
(***************************************************************************)
\* C1: after read_message reads a packet whose sequence number s differs
\* from the expected in_seq_num_pkt, the expected counter is s + 1, so that
\* the next consecutive packet is accepted as in sequence.
C1Claim ==
    [][(PacketRead /\ ReceivedSeqNum # in_seq_num_pkt /\ ret'.kind # "Panic")
          => in_seq_num_pkt' = WrappingAdd1(ReceivedSeqNum)]_vars

\* C2: a sequence-number mismatch, at packet level or at message level,
\* never makes read_message abort or fail: for every received number of
\* the u32 range the call goes on and returns the decoded message.
C2Claim ==
    [][/\ (PacketRead /\ ReceivedSeqNum # in_seq_num_pkt) => ret'.kind # "Panic"
       /\ (MessageDecoded /\ ret'.msg.variant \in FiveVariants
             /\ ret'.msg.msg_seq_num # in_seq_num_msg) => ret'.kind = "Ok"]_vars

\* C3: out_seq_num starts at 1 and the k-th control message sent by the
\* login, request and logout calls that succeed carries 34=k, whatever the
\* interleaving of the calls and of read_message between them.
C3Theorem ==
    /\ \A k \in 1..Len(sent) : Field(sent[k], "34") = U32Of(k)
    /\ Alive => out_seq_num = U32Of(Len(sent) + 1)

C3Witness ==
    /\ Len(sent) = 3
    /\ Field(sent[1], "35") = "A" /\ Field(sent[2], "35") = "c"
    /\ Field(sent[3], "35") = "5" /\ Field(sent[3], "34") = U32Of(3)
    /\ ret.op = "read_message" /\ ret.kind = "Ok"

\* C4 as stated: every login, request or logout that returns Ok has sent
\* exactly one control message and increased out_seq_num by exactly 1, in
\* every session state (unconnected, TCP, recorded file).
C4Claim ==
    SendReturnedOk =>
        /\ Len(sent) = ret.sent_before + 1
        /\ out_seq_num = WrappingAdd1(ret.out_before)

\* the message a call on TCP has sent: the one of its kind, numbered with
\* out_seq_num as it was, a logon with heartbeat interval 60
SentBy(op, m, seq) ==
    /\ Field(m, "34") = seq
    /\ Field(m, "35") = (CASE op = "login" -> "A" [] op = "request" -> "c"
                           [] op = "logout" -> "5")
    /\ op = "login" => Field(m, "108") = 60

\* C4 amended: a login, request or logout that returns Ok on a TCP
\* transport has sent exactly one control message (logon with heartbeat
\* interval 60, subscribe request, or logout) and has advanced out_seq_num
\* by exactly 1; on an unconnected session or a recorded-file transport it
\* returns Ok having sent nothing and leaves out_seq_num unchanged.
C4Theorem ==
    SendReturnedOk =>
        IF source = "Tcp"
        THEN /\ Len(sent) = ret.sent_before + 1
             /\ SentBy(ret.op, sent[Len(sent)], ret.out_before)
             /\ out_seq_num = WrappingAdd1(ret.out_before)
        ELSE /\ Len(sent) = ret.sent_before
             /\ out_seq_num = ret.out_before

C4Witness ==
    /\ SendReturnedOk /\ ret.op = "login" /\ source = "Tcp"
    /\ Len(sent) = 2 /\ out_seq_num = U32Of(3)

\* C5: a transport I/O failure met while read_message reads a packet is
\* returned as an error at whatever byte it occurs; read_message reports
\* the end-of-stream result None only when the stream ended cleanly.
C5Claim ==
    (ret.op = "read_message" /\ ret.kind = "None") => wire_end = "eof"

\* C6: TCPPacket::read returns None exactly when the stream is exhausted
\* before the first byte of a frame; a stream that ends after at least one
\* byte of the frame gives an error, never None and never a packet.
C6Claim ==
    [][FrameReadStep =>
          /\ ret'.kind = "None" <=> (wire = <<>> /\ wire_end = "eof")
          /\ (wire # <<>> /\ wire' = <<>> /\ ret'.kind # "Ok") => ret'.kind = "Err"]_vars

\* C7: for every decoded frame length len in 0..4 TCPPacket::read fails with
\* InvalidPacketLength(len) and reads no byte after the length; for
\* len >= 5 it reads exactly the 5 preamble bytes and the len - 5 payload
\* bytes that follow (an error when the stream ends before them).
C7Theorem ==
    [][(FrameReadStep /\ read_var_uint(wire, wire_end).st = "Some") =>
          LET l == read_var_uint(wire, wire_end)
              len == U64ToNat(l.value)
          IN IF len < 5
             THEN /\ ret'.kind = "Err" /\ ret'.err = "InvalidPacketLength"
                  /\ ret'.len = len
                  /\ wire' = l.rest
             ELSE IF Len(l.rest) >= len
             THEN /\ ret'.kind = "Ok"
                  /\ U32ToBE(ret'.packet.seq_num) \o <<ret'.packet.sub_channel>>
                        = SubSeq(l.rest, 1, 5)
                  /\ ret'.packet.payload = SubSeq(l.rest, 6, len)
                  /\ wire' = SubSeq(l.rest, len + 1, Len(l.rest))
             ELSE ret'.kind = "Err" /\ ret'.err = "IoError"]_vars

C7Witness ==
    /\ ret.op \in FrameOps /\ ret.err = "InvalidPacketLength" /\ ret.len = 4
    /\ Len(wire) >= 5

\* C8: read_message fails whenever the decoded message is not a security
\* definition, heartbeat, logon, logout or security-definition request, and
\* returns no such message to the caller.
C8Theorem ==
    (ret.op = "read_message" /\ ret.msg # NoMsg) =>
        /\ ret.msg.variant \notin FiveVariants => ret.kind = "Err"
        /\ ret.kind = "Ok" => ret.msg.variant \in FiveVariants

C8Witness ==
    /\ ret.op = "read_message" /\ ret.kind = "Err"
    /\ ret.msg.variant = "UserNotification"
    /\ defs_count = 1

\* the (feed_id, security_id) key of a security definition
KeyOf(m) == <<ParseU32(m.appl_id).value, m.security_id>>

\* a step in which SDSClient::read_message returns a security definition
DefinitionReturned ==
    /\ MessageDecoded /\ ret'.kind = "Ok"
    /\ ret'.msg.variant = "MDSecurityDefinition"

\* C9: a security definition is reported with is_update = false exactly
\* when its (feed_id, security_id) key was not observed before, and
\* defs_count is the number of distinct keys observed so far.
C9Theorem ==
    [][/\ DefinitionReturned =>
            /\ ret'.is_update = (KeyOf(ret'.msg) \in observed)
            /\ observed' = observed \cup {KeyOf(ret'.msg)}
       /\ defs_count' = Cardinality(observed')]_vars

C9Witness ==
    /\ ret.op = "read_message" /\ ret.kind = "Ok" /\ ret.is_update
    /\ ret.msg.appl_id = <<"0", "1">>
    /\ defs_count = 3

\* C10: after every SDSClient::read_message that returns a security
\* definition, defs_count_total is that message's tot_num_reports.
C10Theorem ==
    (ret.op = "read_message" /\ ret.kind = "Ok"
       /\ ret.msg.variant = "MDSecurityDefinition")
        => defs_count_total = ret.msg.tot_num_reports

C10Witness ==
    /\ ret.op = "read_message" /\ ret.kind = "Ok" /\ ret.is_update
    /\ ret.msg.variant = "MDSecurityDefinition"
    /\ ret.msg.tot_num_reports = 1 /\ defs_count_total = 1
    /\ defs_count = 2

(***************************************************************************)
(* The catalog's pass-through arm and the progress figures                 *)
(***************************************************************************)
PassThroughVariants ==
    {"MDHeartbeat", "MDLogon", "MDLogout", "MDSecurityDefinitionRequest"}

\* C11: when the connection yields a heartbeat, logon, logout or
\* security-definition request, SDSClient::read_message returns it with
\* is_update = false and leaves defs_count, defs_count_total and the set of
\* seen keys unchanged.
C11Theorem ==
    [][(MessageDecoded /\ ret'.msg.variant \in PassThroughVariants) =>
          /\ ret'.kind = "Ok" /\ ~ret'.is_update
          /\ UNCHANGED <<defs_count, defs_count_total, sec_ids>>]_vars

C11Witness ==
    /\ ret.op = "read_message" /\ ret.kind = "Ok"
    /\ ret.msg.variant = "MDSecurityDefinitionRequest"
    /\ defs_count = 2 /\ defs_count_total = 2 /\ Cardinality(sec_ids) = 2

\* p <= q for two progress values
ProgressLeq(p, q) == p.num * q.den <= q.num * p.den

CurrentProgress == progress(defs_count, defs_count_total)

NextProgress == progress(defs_count', defs_count_total')

\* C12 as stated: progress() after a read_message call is never lower than
\* before it, whatever the call reads.
C12Claim ==
    [][ret'.op = "read_message" => ProgressLeq(CurrentProgress, NextProgress)]_vars

\* C12 amended: progress() is not lowered by a read_message call that
\* leaves defs_count_total as it was or sets it for the first time (from 0).
C12Theorem ==
    [][(ret'.op = "read_message"
          /\ (defs_count_total = 0 \/ defs_count_total' = defs_count_total))
          => ProgressLeq(CurrentProgress, NextProgress)]_vars

C12Witness ==
    /\ ret.op = "read_message" /\ ret.kind = "Ok" /\ ~ret.is_update
    /\ ret.msg.variant = "MDSecurityDefinition"
    /\ defs_count = 2 /\ defs_count_total = 2

\* the progress value is 100.0
IsComplete(p) == p.num = 100 * p.den

\* C13 as stated: in every reachable state, the state of a new client
\* included, progress() is 100.0 exactly when defs_count = defs_count_total,
\* that is exactly when is_subscribed() holds.
C13Claim ==
    /\ IsComplete(CurrentProgress) <=> (defs_count = defs_count_total)
    /\ is_subscribed(defs_count, defs_count_total) <=> (defs_count = defs_count_total)

\* C13 amended: once defs_count_total is not 0, progress() is 100.0 exactly
\* when is_subscribed() holds, exactly when defs_count = defs_count_total;
\* while defs_count_total is 0 (a new client) progress() is 0.0.
C13Theorem ==
    /\ is_subscribed(defs_count, defs_count_total) <=> (defs_count = defs_count_total)
    /\ defs_count_total # 0 =>
          (IsComplete(CurrentProgress) <=> is_subscribed(defs_count, defs_count_total))
    /\ defs_count_total = 0 => CurrentProgress.num = 0

C13Witness ==
    /\ ret.op = "read_message" /\ ret.kind = "Ok" /\ ret.is_update
    /\ defs_count = 1 /\ defs_count_total = 1
    /\ IsComplete(CurrentProgress)

(***************************************************************************)
(* subscribe_feeds                                                         *)
(***************************************************************************)
RECURSIVE U32Add(_, _)
\* x + n modulo 2^32
U32Add(x, n) == IF n = 0 THEN x ELSE U32Add(WrappingAdd1(x), n - 1)

\* the messages the last subscribe_feeds call has sent are subscribe
\* requests for the first n feeds of its argument, in their order, numbered
\* consecutively from out_seq_num as it was
RequestsSent(n) ==
    /\ Len(sent) = ret.sent_before + n
    /\ \A i \in 1..n :
          LET m == sent[ret.sent_before + i] IN
          /\ Field(m, "35") = "c"
          /\ Field(m, "1180") = ret.feeds[i]
          /\ Field(m, "34") = U32Add(ret.out_before, i - 1)
    /\ out_seq_num = U32Add(ret.out_before, n)

Ascending(feeds) == \A i, j \in 1..Len(feeds) : i < j => feeds[i] < feeds[j]

\* C14 as stated: subscribe_feeds sends one subscribe request per feed id,
\* in ascending order and with consecutive sequence numbers; when a send
\* fails it returns the error having sent the requests before it only.
C14Claim ==
    ret.op = "subscribe_feeds" =>
        /\ Ascending(ret.feeds)
        /\ ret.kind = "Ok" => RequestsSent(Len(ret.feeds))
        /\ ret.kind = "Err" => \E n \in 0..(Len(ret.feeds) - 1) : RequestsSent(n)

\* C14 amended: on a connected (TCP) session subscribe_feeds does as
\* stated; on a session that is not connected it returns Ok having sent no
\* request and leaves out_seq_num as it was.
C14Theorem ==
    ret.op = "subscribe_feeds" =>
        /\ Ascending(ret.feeds)
        /\ source = "Tcp" =>
              /\ ret.kind = "Ok" => RequestsSent(Len(ret.feeds))
              /\ ret.kind = "Err" =>
                    \E n \in 0..(Len(ret.feeds) - 1) : RequestsSent(n)
        /\ source # "Tcp" => (ret.kind = "Ok" /\ RequestsSent(0))

C14Witness ==
    /\ ret.op = "subscribe_feeds" /\ ret.kind = "Err" /\ source = "Tcp"
    /\ ret.feeds = <<85, 86, 90>> /\ Len(sent) = 2
    /\ Field(sent[2], "1180") = 86

(***************************************************************************)
(* Cancellation of read_message                                            *)
(***************************************************************************)
\* a step in which a waiting read_message is cancelled
CancelStep ==
    /\ ret'.op = "read_message" /\ ret'.kind = "Cancelled"
    /\ Len(wire') <= Len(wire)

\* C15: a read_message cancelled while it waits for the next packet leaves
\* the session as if it had not been called: the sequence counters and the
\* residual buffer are unchanged and the stream is where it was, at a frame
\* boundary, so that a later read_message returns the same packet.
C15Claim ==
    [][CancelStep => (UNCHANGED conn_vars /\ wire' = wire)]_vars

(***************************************************************************)
(* VarUint round trips                                                     *)
(***************************************************************************)
VarUintReads == {"read_var_uint", "sync::read_var_uint"}

VarUintWrites == {"write_var_uint", "sync::write_var_uint"}

\* a step in which read_var_uint is applied to the stream
VarUintReadStep == ret'.op \in VarUintReads /\ Len(wire') <= Len(wire)

\* a step in which write_var_uint writes the value that was just read
VarUintRewriteStep ==
    /\ ret.op \in VarUintReads /\ ret.kind = "Ok"
    /\ ret'.op \in VarUintWrites /\ ret'.kind = "Ok"

\* one byte or more, the stop bit set on the last and on no other
WellFormed(b) ==
    /\ Len(b) >= 1 /\ b[Len(b)] >= 128
    /\ \A i \in 1..(Len(b) - 1) : b[i] < 128

\* C16: the bytes write_var_uint produces for a value v are well formed
\* (the single byte 0x80 for 0), and read_var_uint applied to a stream that
\* starts with them returns Some(v) and takes exactly those bytes; so for
\* every u64, 0 and u64::MAX included.
C16Theorem ==
    [][(VarUintReadStep /\ ret.op \in VarUintWrites /\ ret.kind = "Ok") =>
          /\ WellFormed(ret.bytes)
          /\ ret.value = U64Of(0) => ret.bytes = <<128>>
          /\ ret'.kind = "Ok" /\ ret'.value = ret.value
          /\ ret'.bytes = ret.bytes
          /\ ret.bytes \o wire' = wire]_vars

C16Witness ==
    /\ ret.op = "sync::read_var_uint" /\ ret.kind = "Ok"
    /\ ret.value = U64_MAX /\ Len(ret.bytes) = 10
    /\ wire = <<133>>

\* the bytes encode a value of at most 64 bits: ten groups at most after
\* the leading zero groups, the first of ten holding one bit
RECURSIVE StripZeros(_)
StripZeros(x) == IF Len(x) > 1 /\ x[1] = 0 THEN StripZeros(Tail(x)) ELSE x

FitsU64(x) ==
    LET y == StripZeros(x) IN
    Len(y) < U64Digits \/ (Len(y) = U64Digits /\ y[1] <= 1)

\* C17 as stated: for every byte sequence x that read_var_uint accepts and
\* whose value fits in 64 bits, write_var_uint of the decoded value is x.
C17Claim ==
    [][(VarUintRewriteStep /\ FitsU64(ret.bytes)) => ret'.bytes = ret.bytes]_vars

\* C17 amended: write_var_uint of the decoded value is x without its
\* leading 0x00 bytes; it is x exactly when x does not start with 0x00.
C17Theorem ==
    [][(VarUintRewriteStep /\ FitsU64(ret.bytes)) =>
          /\ ret'.value = ret.value
          /\ ret'.bytes = StripZeros(ret.bytes)
          /\ (ret'.bytes = ret.bytes) <=> (ret.bytes[1] # 0)]_vars

C17Witness ==
    /\ ret.op = "write_var_uint" /\ ret.kind = "Ok"
    /\ ret.bytes = <<1, 127, 0, 128>>
    /\ wire = ret.bytes

(***************************************************************************)
(* TCP frames written                                                      *)
(***************************************************************************)
PacketWrites == {"TCPPacket::write", "sync::TCPPacket::write"}

\* a step in which TCPPacket::write is applied to the stream
PacketWriteStep == ret'.op \in PacketWrites

\* C18: TCPPacket::read applied to a stream that holds what TCPPacket::write
\* has written for a packet returns a packet with the same seq_num,
\* sub_channel and payload and takes all the bytes written, for payloads
\* of 0, 1, 123 and 16385 bytes; the read after it returns None.
C18Theorem ==
    [][/\ (FrameReadStep /\ ret.op \in PacketWrites /\ ret.kind = "Ok") =>
            /\ ret'.kind = "Ok"
            /\ ret'.packet = ret.packet
            /\ wire' = <<>>
       /\ (FrameReadStep /\ ret.op \in FrameOps /\ ret.kind = "Ok" /\ wire = <<>>) =>
            ret'.kind = "None"]_vars

C18Witness ==
    /\ ret.op = "TCPPacket::read" /\ ret.kind = "Ok" /\ wire = <<>>
    /\ Len(ret.packet.payload) = 16385 /\ ret.packet.seq_num = U32_MAX
    /\ ret.packet.sub_channel = 7 /\ ret.len = 16390

\* C19: what a TCPPacket::write that succeeds has put on the stream is, in
\* this order and with nothing else: the shortest VarUint of
\* 5 + payload.len(), the four bytes of seq_num from the most significant
\* down, the sub_channel byte, and the payload bytes as they are.
C19Theorem ==
    [][(PacketWriteStep /\ ret'.kind = "Ok" /\ wire = <<>>) =>
          LET b == wire'
              p == ret'.packet
              n == Len(p.payload)
              k == Len(b) - 5 - n
          IN /\ k = (IF 5 + n < 128 THEN 1 ELSE IF 5 + n < 16384 THEN 2 ELSE 3)
             /\ WellFormed(SubSeq(b, 1, k))
             /\ U64ToNat(read_var_uint(SubSeq(b, 1, k), "eof").value) = 5 + n
             /\ b[k + 1] * 256 + b[k + 2] = p.seq_num.hi
             /\ b[k + 3] * 256 + b[k + 4] = p.seq_num.lo
             /\ b[k + 5] = p.sub_channel
             /\ SubSeq(b, k + 6, Len(b)) = p.payload]_vars

C19Witness ==
    /\ ret.op = "sync::TCPPacket::write" /\ ret.kind = "Ok"
    /\ wire = <<1, 128, 1, 2, 3, 4, 7>> \o Payload(123)

\* C20: when TCPPacket::write returns, with Ok or with an error, the stream
\* holds the whole frame or no byte of it.
C20Claim ==
    [][PacketWriteStep =>
          \/ wire' = wire
          \/ wire' = wire \o TCPPacket_write(ret'.packet)]_vars

(***************************************************************************)
(* UDP packets                                                             *)
(***************************************************************************)
\* C21: UDPPacket::read fails, with InvalidPacketLength(buffer length),
\* exactly when the buffer has fewer than 5 bytes; a buffer of 5 or more
\* bytes gives seq_num from bytes 0..4 with the most significant first,
\* sub_channel = byte 4 and payload = the bytes from 5 on.
C21Theorem ==
    ret.op = "UDPPacket::read" =>
        LET b == ret.bytes IN
        /\ (ret.kind = "Err") <=> (Len(b) < 5)
        /\ ret.kind = "Err" => (ret.err = "InvalidPacketLength" /\ ret.len = Len(b))
        /\ Len(b) >= 5 =>
             /\ ret.kind = "Ok"
             /\ ret.packet.seq_num.hi = b[1] * 256 + b[2]
             /\ ret.packet.seq_num.lo = b[3] * 256 + b[4]
             /\ ret.packet.sub_channel = b[5]
             /\ ret.packet.payload = [i \in 1..(Len(b) - 5) |-> b[i + 5]]

C21Witness ==
    /\ ret.op = "UDPPacket::read" /\ ret.bytes = <<0, 0, 0, 7, 0>>
    /\ ret.kind = "Ok" /\ ret.packet.seq_num = U32Of(7)
    /\ ret.packet.sub_channel = 0 /\ ret.packet.payload = <<>>

(***************************************************************************)
(* Control messages as bytes                                               *)
(***************************************************************************)
FixOps == {"fix::login", "fix::logout", "fix::request"}

\* the first index from `from` on at which m holds the delimiter
NextDelimiter(m, from) ==
    CHOOSE i \in from..Len(m) : m[i] = 1 /\ \A k \in from..(i - 1) : m[k] # 1

\* the delimiter that ends the 8= field, the one that ends the 9= field and
\* the one before the last field
EndOfBegin(m) == NextDelimiter(m, 1)
EndOfLength(m) == NextDelimiter(m, EndOfBegin(m) + 1)
BeforeTrailer(m) ==
    CHOOSE j \in 1..(Len(m) - 1) : m[j] = 1 /\ \A k \in (j + 1)..(Len(m) - 1) : m[k] # 1

RECURSIVE DecValue(_)
\* the number that decimal digits spell
DecValue(t) ==
    IF t = <<>> THEN 0
    ELSE DecValue(SubSeq(t, 1, Len(t) - 1)) * 10 + (t[Len(t)] - 48)

RECURSIVE SumRange(_, _, _)
\* t[i] + ... + t[j]
SumRange(t, i, j) ==
    IF i > j THEN 0
    ELSE IF i = j THEN t[i]
    ELSE SumRange(t, i, (i + j) \div 2) + SumRange(t, (i + j) \div 2 + 1, j)

SumBytes(t) == SumRange(t, 1, Len(t))

\* the text of field 9, the text of field 10 and the checksum of the bytes
\* before field 10
LengthText(m) == SubSeq(m, EndOfBegin(m) + 3, EndOfLength(m) - 1)
ChecksumText(m) == SubSeq(m, BeforeTrailer(m) + 4, Len(m) - 1)
ChecksumOf(m) == SumBytes(SubSeq(m, 1, BeforeTrailer(m))) % 256

RefLoginArgs ==
    FixArgs(U32Of(1), <<117, 115, 101, 114>>, <<112, 97, 115, 115, 119, 111, 114, 100>>, U32Of(60),
            <<50, 48, 50, 53, 48, 54, 50, 48, 45, 49, 48, 58, 50, 50, 58, 52, 55>>)
RefLogoutArgs ==
    FixArgs(U32Of(2), <<76, 111, 103, 111, 117, 116>>, <<>>, U32Of(0),
            <<50, 48, 50, 53, 48, 54, 50, 48, 45, 49, 48, 58, 53, 49, 58, 48, 51>>)
RefRequestArgs ==
    FixArgs(U32Of(3), <<>>, <<>>, U32Of(85),
            <<50, 48, 50, 53, 48, 54, 50, 48, 45, 49, 48, 58, 53, 51, 58, 49, 52>>)

\* C22: in every message built by login, logout or request, field 9 spells
\* the number of bytes from the first byte after the delimiter that ends
\* the 9= field up to and including the delimiter before 10=; it is 67, 48
\* and 46 for the three reference messages.
C22Theorem ==
    ret.op \in FixOps =>
        LET m == ret.bytes IN
        /\ SubSeq(m, EndOfBegin(m) + 1, EndOfBegin(m) + 2) = <<57, 61>>
        /\ SubSeq(m, BeforeTrailer(m) + 1, BeforeTrailer(m) + 3) = <<49, 48, 61>>
        /\ DecValue(LengthText(m)) = BeforeTrailer(m) - EndOfLength(m)
        /\ ret.args = RefLoginArgs => LengthText(m) = <<54, 55>>
        /\ ret.args = RefLogoutArgs => LengthText(m) = <<52, 56>>
        /\ ret.args = RefRequestArgs => LengthText(m) = <<52, 54>>

C22Witness ==
    /\ ret.op = "fix::logout" /\ ret.args.sequence = U32_MAX /\ ret.args.text = <<97, 124, 98>>
    /\ LengthText(ret.bytes) = <<53, 52>>

\* C23: in every message built by login, logout or request, field 10 spells
\* the sum modulo 256 of all the bytes of the message from "8=" through the
\* delimiter before "10=", the bytes being those sent (0x01 where the text
\* had '|').
C23Theorem ==
    ret.op \in FixOps =>
        LET m == ret.bytes IN
        /\ SubSeq(m, 1, 2) = <<56, 61>>
        /\ \A i \in 1..Len(m) : m[i] # 124
        /\ DecValue(ChecksumText(m)) = ChecksumOf(m)

C23Witness ==
    /\ ret.op = "fix::login" /\ ret.args.text = <<97, 124, 98>>
    /\ ret.args.sequence = U32Of(65536) /\ ChecksumOf(ret.bytes) < 100

\* C24 as claimed: field 10 of every built control message is one byte
\* holding the checksum, followed by the delimiter.
C24Claim ==
    ret.op \in FixOps =>
        LET m == ret.bytes IN
        /\ ChecksumText(m) = <<ChecksumOf(m)>>
        /\ m[Len(m)] = 1

\* C24: field 10 of every built control message is the decimal text of the
\* checksum, one to three digits without padding, followed by the
\* delimiter.
C24Theorem ==
    ret.op \in FixOps =>
        LET m == ret.bytes
            t == ChecksumText(m)
        IN /\ Len(t) \in 1..3
           /\ \A i \in 1..Len(t) : t[i] \in 48..57
           /\ Len(t) > 1 => t[1] # 48
           /\ DecValue(t) = ChecksumOf(m)
           /\ m[Len(m)] = 1

C24Witness ==
    /\ ret.op = "fix::logout" /\ ret.args = RefLogoutArgs
    /\ ChecksumText(ret.bytes) = <<57, 56>>

\* "8=FIX.5.0.SP2|9=67|35=A|34=1|49=CQG|52=20250620-10:22:47|108=60|553=user|
\* 554=password|10=117|" with 0x01 for '|'
RefLoginBytes ==
    <<56, 61, 70, 73, 88, 46, 53, 46, 48, 46, 83, 80, 50, 1, 57, 61,
      54, 55, 1, 51, 53, 61, 65, 1, 51, 52, 61, 49, 1, 52, 57, 61, 67,
      81, 71, 1, 53, 50, 61, 50, 48, 50, 53, 48, 54, 50, 48, 45, 49,
      48, 58, 50, 50, 58, 52, 55, 1, 49, 48, 56, 61, 54, 48, 1, 53,
      53, 51, 61, 117, 115, 101, 114, 1, 53, 53, 52, 61, 112, 97, 115,
      115, 119, 111, 114, 100, 1, 49, 48, 61, 49, 49, 55, 1>>

\* C25: login(1, "user", "password", 60) at 20250620-10:22:47 builds the
\* reference message byte for byte, with the checksum as the digits 117;
\* logout(2, "Logout") at 20250620-10:51:03 has checksum 98 and
\* request(3, 85) at 20250620-10:53:14 has checksum 227.
C25Theorem ==
    /\ (ret.op = "fix::login" /\ ret.args = RefLoginArgs) => ret.bytes = RefLoginBytes
    /\ (ret.op = "fix::logout" /\ ret.args = RefLogoutArgs) =>
           (ChecksumText(ret.bytes) = <<57, 56>> /\ ChecksumOf(ret.bytes) = 98)
    /\ (ret.op = "fix::request" /\ ret.args = RefRequestArgs) =>
           (ChecksumText(ret.bytes) = <<50, 50, 55>> /\ ChecksumOf(ret.bytes) = 227)

C25Witness ==
    /\ ret.op = "fix::login" /\ ret.args = RefLoginArgs
    /\ ret.bytes = RefLoginBytes

(***************************************************************************)
(* Feed lists                                                              *)
(***************************************************************************)
FeedsOps == {"Feeds::from_strs", "Feeds::from_str"}

\* a token without its leading '!'
Strip(t) == IF t # <<>> /\ t[1] = "!" THEN Tail(t) ELSE t

IsExclusion(t) == t # <<>> /\ t[1] = "!"

\* the digits of a number text, which may start with '+'
Unsigned(a) == IF a # <<>> /\ a[1] = "+" THEN Tail(a) ELSE a

\* ten digits spell a number that is at most 4294967295
AtMostU32Max(d) ==
    LET max == <<"4", "2", "9", "4", "9", "6", "7", "2", "9", "5">> IN
    \/ d = max
    \/ \E k \in 1..10 :
         /\ DigitVal(d[k]) < DigitVal(max[k])
         /\ \A j \in 1..(k - 1) : d[j] = max[j]

\* a is the text of a u32: digits, at most ten of them, after an optional '+'
IsNumberText(a) ==
    LET d == Unsigned(a) IN
    /\ d # <<>>
    /\ \A i \in 1..Len(d) : IsDigit(d[i])
    /\ Len(d) <= 10
    /\ Len(d) = 10 => AtMostU32Max(d)

RECURSIVE DigitsValue(_)
DigitsValue(d) ==
    IF d = <<>> THEN 0
    ELSE DigitsValue(SubSeq(d, 1, Len(d) - 1)) * 10 + DigitVal(d[Len(d)])

NumberValue(a) == DigitsValue(Unsigned(a))

\* a is two u32 texts joined by its only '-'
IsRangeText(a) ==
    \E k \in 1..Len(a) :
        /\ a[k] = "-"
        /\ \A j \in 1..Len(a) : a[j] = "-" => j = k
        /\ IsNumberText(SubSeq(a, 1, k - 1))
        /\ IsNumberText(SubSeq(a, k + 1, Len(a)))

RangeStart(a) == NumberValue(SubSeq(a, 1, (CHOOSE k \in 1..Len(a) : a[k] = "-") - 1))
RangeEnd(a) == NumberValue(SubSeq(a, (CHOOSE k \in 1..Len(a) : a[k] = "-") + 1, Len(a)))

ValidToken(t) == IsNumberText(Strip(t)) \/ IsRangeText(Strip(t))

\* the ids that a valid token, stripped, stands for
Denoted(a) ==
    IF IsNumberText(a) THEN {NumberValue(a)}
    ELSE {n \in 0..RangeEnd(a) : RangeStart(a) <= n}

Included(tokens) ==
    UNION {Denoted(tokens[i]) : i \in {j \in 1..Len(tokens) : ~IsExclusion(tokens[j])}}

Excluded(tokens) ==
    UNION {Denoted(Strip(tokens[i])) : i \in {j \in 1..Len(tokens) : IsExclusion(tokens[j])}}

\* C26: for a list of valid tokens, Feeds::from_strs, and Feeds::from_str on
\* the tokens joined by spaces, return the ids of the inclusion tokens that
\* no exclusion token holds, in strictly ascending order; the same list
\* reversed or repeated gives the same feeds, and no token gives no feed.
C26Theorem ==
    (ret.op \in FeedsOps /\ \A i \in 1..Len(ret.tokens) : ValidToken(ret.tokens[i])) =>
        /\ ret.kind = "Ok"
        /\ \A i \in 1..(Len(ret.feeds) - 1) : ret.feeds[i] < ret.feeds[i + 1]
        /\ {ret.feeds[i] : i \in 1..Len(ret.feeds)}
              = Included(ret.tokens) \ Excluded(ret.tokens)
        /\ from_strs(Reverse(ret.tokens)).feeds = ret.feeds
        /\ from_strs(ret.tokens \o ret.tokens).feeds = ret.feeds
        /\ ret.tokens = <<>> => ret.feeds = <<>>

C26Witness ==
    /\ ret.op = "Feeds::from_str" /\ ret.kind = "Ok"
    /\ ret.tokens = <<<<"1", "-", "3">>, <<"!", "2">>, <<"2", "-", "3">>>>
    /\ ret.feeds = <<1, 3>>

\* a range token, stripped, whose start is above its end
ReversedRange(a) == IsRangeText(a) /\ RangeStart(a) > RangeEnd(a)

\* C27 as claimed: Feeds::from_strs returns an error for every input that
\* holds a range token N-M with N > M, as an inclusion or after '!'.
C27Claim ==
    (/\ ret.op = "Feeds::from_strs"
     /\ \E i \in 1..Len(ret.tokens) : ReversedRange(Strip(ret.tokens[i]))) =>
        ret.kind = "Err"

\* C28: when a token is, without its leading '!', neither a u32 nor two u32
\* joined by a single '-', Feeds::from_strs returns an error and no feeds,
\* and the error names the first such token of the input, whatever the
\* tokens before and after it are.
C28Theorem ==
    (/\ ret.op = "Feeds::from_strs"
     /\ \E i \in 1..Len(ret.tokens) : ~ValidToken(ret.tokens[i])) =>
        LET first == CHOOSE i \in 1..Len(ret.tokens) :
                        /\ ~ValidToken(ret.tokens[i])
                        /\ \A j \in 1..(i - 1) : ValidToken(ret.tokens[j])
        IN /\ ret.kind = "Err"
           /\ ret.err = "Invalid argument"
           /\ ret.feeds = <<>>
           /\ ret.bad = Strip(ret.tokens[first])

C28Witness ==
    /\ ret.op = "Feeds::from_strs" /\ ret.kind = "Err"
    /\ ret.tokens = <<<<"7">>, <<"!", "!", "2">>, <<"a", "b", "c">>>>
    /\ ret.bad = <<"!", "2">>

(***************************************************************************)
(* The residual buffer                                                     *)
(***************************************************************************)
\* a step of a read_message call: the peer and the transport do not act
ReadCall ==
    /\ ret'.op = "read_message"
    /\ Len(wire') <= Len(wire)
    /\ source' = source /\ wire_end' = wire_end

\* s is what is left of b after its first n >= 0 bytes
IsSuffix(s, b) == \E n \in 0..Len(b) : s = SubSeq(b, n + 1, Len(b))

\* C30: read_message reads a packet from the transport exactly when the
\* residual buffer is empty at the start of the call.  With bytes in the
\* buffer it decodes from them, takes nothing from the transport and
\* leaves in_seq_num_pkt as it is; the packet counter moves when the
\* packet is read and the message counter for every message returned.
C30Theorem ==
    [][/\ (ReadCall /\ buff # <<>>) =>
            /\ wire' = wire
            /\ in_seq_num_pkt' = in_seq_num_pkt
            /\ IsSuffix(buff', buff)
            /\ ret'.kind = "Ok" => Len(buff') < Len(buff)
       /\ (ReadCall /\ Len(wire') < Len(wire)) => buff = <<>>
       /\ (ReadCall /\ buff = <<>> /\ source # "None" /\ ret' # ret) =>
            wire' = TCPPacket_read(wire, wire_end).rest
       /\ (PacketRead /\ ret'.kind # "Panic") =>
            /\ IsSuffix(buff', TCPPacket_read(wire, wire_end).packet.payload)
            /\ ReceivedSeqNum = in_seq_num_pkt =>
                  in_seq_num_pkt' = WrappingAdd1(in_seq_num_pkt)
       /\ (MessageDecoded /\ ret'.kind = "Ok"
             /\ ret'.msg.msg_seq_num = in_seq_num_msg) =>
            in_seq_num_msg' = WrappingAdd1(in_seq_num_msg)]_vars

C30Witness ==
    /\ ret.op = "read_message" /\ ret.kind = "Ok" /\ source = "Tcp"
    /\ in_seq_num_pkt = U32Of(2) /\ in_seq_num_msg = U32Of(3)
    /\ buff = <<>> /\ wire = <<>>

(***************************************************************************)
(* The UDP receive loop                                                    *)
(***************************************************************************)
\* a turn of the loop of run that took a datagram from the socket
DatagramTaken == ret'.op = "ffs-client::run" /\ Len(wire') < Len(wire)

\* run has returned
FfsReturned == ret.op = "ffs-client::run" /\ ret.kind \in {"Ok", "Err"}

\* C29: in the receive loop of ffs-client a datagram that cannot be parsed
\* (fewer than 5 bytes) or decoded is skipped and the loop goes on to the
\* next datagram; run returns only on the cancellation signal (Ok) or on a
\* receive error, in a turn that took no datagram, and never goes on after.
C29Theorem ==
    [][/\ DatagramTaken =>
            /\ ret'.kind \in {"Skipped", "Message"}
            /\ Len(Head(wire)) < 5 => ret'.kind = "Skipped"
            /\ ret'.kind = "Skipped" => ret'.err \in {"InvalidPacketLength", "DecodeError"}
            /\ wire' = Tail(wire)
       /\ (ret'.op = "ffs-client::run" /\ ret'.kind \in {"Ok", "Err"} /\ ret' # ret) =>
            /\ wire' = wire
            /\ ret'.kind = "Err" => ret'.err = "IoError"
       /\ FfsReturned => ret' = ret]_vars

C29Witness ==
    /\ ret.op = "ffs-client::run" /\ ret.kind = "Skipped"
    /\ ret.err = "InvalidPacketLength" /\ ret.bytes = <<0, 0, 0, 7>>
    /\ wire = <<<<0, 0, 0, 7, 0, 192>>>>

(***************************************************************************)
(* The update rule of the two incoming counters                            *)
(***************************************************************************)
\* the counter that the rule yields for the received number r: r + 1 when
\* r is the number expected, r + 2 when it is not
RuleValue(expected, r) ==
    IF r = expected THEN WrappingAdd1(r) ELSE WrappingAdd1(WrappingAdd1(r))

\* C31: one update rule governs in_seq_num_pkt for each packet read and
\* in_seq_num_msg for each message decoded: a received number r equal to
\* the counter leaves the counter at r + 1, a different one at r + 2.
C31Claim ==
    [][/\ PacketRead => in_seq_num_pkt' = RuleValue(in_seq_num_pkt, ReceivedSeqNum)
       /\ (MessageDecoded /\ ret'.msg.variant \in FiveVariants) =>
            in_seq_num_msg' = RuleValue(in_seq_num_msg, ret'.msg.msg_seq_num)]_vars

(***************************************************************************)
(* Control messages that fail to be sent                                   *)
(***************************************************************************)
\* a login, request or logout call has just failed
SendFailed == ret.op \in SendOps /\ ret.kind = "Err"

\* C32: a login, request or logout that fails on the write or the flush
\* leaves out_seq_num as it was; the control message sent next carries
\* the number of the failed one, and the numbers of the messages sent are
\* consecutive from 1, none being skipped.
C32Theorem ==
    [][/\ SendFailed' =>
            /\ ret'.err = "IoError"
            /\ ret'.out_before = out_seq_num
            /\ out_seq_num' = out_seq_num
       /\ (SendFailed /\ Len(sent') = Len(sent) + 1) =>
            Field(sent'[Len(sent')], "34") = ret.out_before
       /\ \A k \in 1..Len(sent') : Field(sent'[k], "34") = U32Of(k)]_vars

C32Witness ==
    /\ SendFailed /\ ret.op = "request" /\ source = "Tcp"
    /\ Len(sent) = 1 /\ Field(sent[1], "35") = "A"
    /\ ret.out_before = U32Of(2) /\ out_seq_num = U32Of(2)

(***************************************************************************)
(* The match of SDSClient::read_message                                    *)
(***************************************************************************)
\* SDSConnection::read_message has returned Ok(Some(ret.msg)) to
\* SDSClient::read_message in the last call
ConnectionReturned ==
    /\ ret.op = "read_message" /\ ret.msg # NoMsg
    /\ ret.err \notin {"unexpected SDS message", "overflow"}

\* C33: the `_ => unreachable!()` arm of SDSClient::read_message is never
\* taken: whatever variant the decoder yields, a message that
\* SDSConnection::read_message returns is a security definition, heartbeat,
\* logon, logout or security-definition request, and each has an arm.
C33Theorem ==
    /\ ret.err # "unreachable"
    /\ ConnectionReturned =>
          /\ ret.msg.variant \in FiveVariants
          /\ ret.kind \in {"Ok", "Err"}
          /\ ret.kind = "Err" =>
                ret.err = "ParseIntError" /\ ret.msg.variant = "MDSecurityDefinition"
    /\ (ret.op = "read_message" /\ ret.msg.variant \in Variants \ FiveVariants) =>
          ret.kind = "Err" /\ ret.err = "unexpected SDS message"

C33Witness ==
    /\ ConnectionReturned /\ ret.kind = "Ok"
    /\ ret.msg.variant = "MDSecurityDefinitionRequest"
    /\ defs_count = 2 /\ defs_count_total = 1

(***************************************************************************)
(* A security definition whose application id is not a feed id             *)
(***************************************************************************)
\* a step in which SDSClient::read_message fails on `m.appl_id.parse()?`
ApplIdRejected ==
    /\ MessageDecoded
    /\ ret'.kind = "Err" /\ ret'.err = "ParseIntError"

\* C34: when SDSClient::read_message fails because the application id of
\* a security definition is not a valid u32, defs_count, defs_count_total
\* and the set of seen keys are as they were before the call.
C34Claim ==
    [][ApplIdRejected => UNCHANGED <<defs_count, defs_count_total, sec_ids>>]_vars

(***************************************************************************)
(* The count of definitions against the total reported                     *)
(***************************************************************************)
\* a security definition has been received by SDSClient::read_message
DefinitionReceived == defs_count > 0

\* C35: once a security definition has been received, defs_count never
\* exceeds defs_count_total, so that progress() is at most 100.0, also when
\* several feeds each report their own tot_num_reports.
C35Claim ==
    DefinitionReceived =>
        /\ defs_count <= defs_count_total
        /\ ProgressLeq(CurrentProgress, [num |-> 100, den |-> 1])

(***************************************************************************)
(* Caller-supplied values in the control messages                          *)
(***************************************************************************)
\* the bytes of message m between "tag=" of its first field so tagged and
\* the delimiter that follows
ValueOf(m, tag) ==
    LET t == <<1>> \o tag \o <<61>>
        k == CHOOSE i \in 1..Len(m) :
                 /\ SubSeq(m, i, i + Len(t) - 1) = t
                 /\ \A j \in 1..(i - 1) : SubSeq(m, j, j + Len(t) - 1) # t
        from == k + Len(t)
    IN SubSeq(m, from, NextDelimiter(m, from) - 1)

\* the number of fields of m: each ends with a delimiter
FieldCount(m) == Cardinality({i \in 1..Len(m) : m[i] = 1})

\* the value holds no delimiter byte
DelimiterFree(v) == \A i \in 1..Len(v) : v[i] # 1

\* C36: in a built control message the user, the password and the logout
\* text each stand verbatim between their "tag=" and the next delimiter,
\* and the message has the number of fields of its kind (10 for a logon, 8
\* for a logout and for a request) whatever the values are, for every
\* value without the byte 0x01, those with '|' included.
C36Claim ==
    (/\ ret.op \in FixOps
     /\ DelimiterFree(ret.args.text) /\ DelimiterFree(ret.args.password)) =>
        LET m == ret.bytes IN
        /\ ret.op = "fix::login" =>
              /\ ValueOf(m, <<53, 53, 51>>) = ret.args.text
              /\ ValueOf(m, <<53, 53, 52>>) = ret.args.password
        /\ ret.op = "fix::logout" => ValueOf(m, <<53, 56>>) = ret.args.text
        /\ FieldCount(m) = IF ret.op = "fix::login" THEN 10 ELSE 8

(***************************************************************************)
(* A read that fails before a packet is complete                           *)
(***************************************************************************)
\* a read_message call that has no whole packet to read: no transport is
\* selected, or TCPPacket::read fails on the bytes the transport holds
FailsBeforePacket ==
    /\ ReadCall /\ buff = <<>>
    /\ source = "None" \/ TCPPacket_read(wire, wire_end).st = "Err"

\* C37: when read_message fails before a packet has been read whole (no
\* transport selected, frame length below 5, transport error or end of
\* stream inside a frame) it returns the error and in_seq_num_pkt,
\* in_seq_num_msg, out_seq_num and the residual buffer are as they were.
C37Theorem ==
    [][/\ FailsBeforePacket =>
            /\ ret'.kind = "Err"
            /\ ret'.err = IF source = "None" THEN "source not initialized"
                          ELSE TCPPacket_read(wire, wire_end).err
            /\ UNCHANGED <<in_seq_num_pkt, in_seq_num_msg, out_seq_num, buff>>
       /\ (ReadCall /\ ret'.kind = "Err" /\ ret' # ret
             /\ ret'.err \in {"source not initialized", "InvalidPacketLength", "IoError"}) =>
            UNCHANGED <<in_seq_num_pkt, in_seq_num_msg, out_seq_num, buff>>]_vars

C37Witness ==
    /\ ret.op = "read_message" /\ ret.kind = "Err"
    /\ ret.err = "InvalidPacketLength" /\ ret.len = 3
    /\ in_seq_num_pkt = U32Of(2) /\ in_seq_num_msg = U32Of(2)
    /\ buff = <<>> /\ source = "Tcp"

=============================================================================
